---- MODULE Spec2Model ----
(***************************************************************************)
(* Availability resolution engine of the studio availability app:          *)
(* slot generation, rule applicability, "latest wins" resolution, session  *)
(* overlay (lib/availability.ts) and the per-engineer roll-up              *)
(* (getAvailabilitySummary).                                               *)
(*                                                                         *)
(* Time is counted in minutes.  An instant is the number of minutes since  *)
(* local midnight of calendar day 0.  Calendar dates ("yyyy-MM-dd") are    *)
(* day numbers; day 0 is a Thursday.  Wall-clock strings "HH:mm" are pairs *)
(* <<hours, minutes>>.  ISO strings are records: [kind |-> "instant"] for  *)
(* a string with a zone designator, [kind |-> "local"] for a date-time     *)
(* without one, [kind |-> "date"] for a date-only string.                  *)
(***************************************************************************)
EXTENDS Integers, Sequences, FiniteSets, TLC

VARIABLES zone, rules, sessions, startDate, endDate, requested,
          engineersAvailability, passed, query, summary, call, reply, drag, clock, pc

vars == <<zone, rules, sessions, startDate, endDate, requested,
          engineersAvailability, passed, query, summary, call, reply, drag, clock, pc>>

(***************************************************************************)
(* Bounds of the model.                                                    *)
(***************************************************************************)
\* number of calendar days of the model calendar (Thu, Fri, Sat, ...)
NumDays == 3
\* largest number of rules in one rule array
MaxRules == 2
\* updatedAt stamps range over 1..MaxStamp
MaxStamp == 2
\* number of consecutive slots given an arbitrary status in the roll-up inputs
WindowSlots == 3

Days == 0 .. (NumDays - 1)

(***************************************************************************)
(* Program constants.                                                      *)
(***************************************************************************)
SLOT_MINUTES == 30

DAY_MAP == [i \in 0..6 |->
              CASE i = 0 -> "Sun" [] i = 1 -> "Mon" [] i = 2 -> "Tue"
                [] i = 3 -> "Wed" [] i = 4 -> "Thu" [] i = 5 -> "Fri"
                [] OTHER -> "Sat"]

Undefined == "undefined"

(***************************************************************************)
(* The process time zone.  TIMEZONE defaults to America/New_York: the      *)
(* clock goes from 02:00 to 03:00 on one day of the year ("spring") and    *)
(* from 02:00 back to 01:00 on another ("fall").  A zone of kind "none"    *)
(* never changes its offset.                                               *)
(***************************************************************************)
TIMEZONE == [k \in {"none", "spring", "fall"} |->
               IF k = "spring" THEN -60 ELSE IF k = "fall" THEN 60 ELSE 0]

Zones == {[kind |-> "none", day |-> 0]}
           \cup [kind : {"spring", "fall"}, day : Days]

\* minutes gained (fall) or lost (spring) by the days before day d
ZoneDrift(z, d) == IF d > z.day THEN TIMEZONE[z.kind] ELSE 0

\* instant of local midnight of calendar day d
DayStart(z, d) == d * (24 * 60) + ZoneDrift(z, d)

\* calendar day that holds instant t
DateOf(z, t) ==
  LET d0 == t \div (24 * 60)
  IN  CHOOSE d \in (IF d0 = 0 THEN 0 ELSE d0 - 1) .. (d0 + 1) :
        DayStart(z, d) <= t /\ t < DayStart(z, d + 1)

\* wall-clock minute of day shown by the local clock at instant t
LocalMinutes(z, t) ==
  LET d == DateOf(z, t)
      m == t - DayStart(z, d)
  IN  IF d = z.day /\ m >= 2 * 60 THEN m - TIMEZONE[z.kind] ELSE m

\* date-fns
startOfDay(z, t) == DayStart(z, DateOf(z, t))
endOfDay(z, t) == DayStart(z, DateOf(z, t) + 1) - 1
addMinutes(t, n) == t + n
\* the same wall-clock time n calendar days later
addDays(z, t, n) == DayStart(z, DateOf(z, t) + n) + (t - DayStart(z, DateOf(z, t)))
\* the time value of an Invalid Date (NaN); every instant of the model is >= 0
InvalidDate == 0 - 1
\* a comparison with an Invalid Date is false
isBefore(a, b) == a # InvalidDate /\ b # InvalidDate /\ a < b
isAfter(a, b) == a # InvalidDate /\ b # InvalidDate /\ a > b
getDay(z, t) == (DateOf(z, t) + 4) % 7
formatHHmm(z, t) == <<LocalMinutes(z, t) \div 60, LocalMinutes(z, t) % 60>>
formatDate(z, t) == DateOf(z, t)
formatEEE(z, t) == DAY_MAP[getDay(z, t)]

\* Date.prototype.toISOString
toISOString(t) == [kind |-> "instant", t |-> t]

\* instant of wall-clock minute w on calendar day d; a wall-clock time the
\* spring change skips is read with the offset before the change, a time the
\* fall change repeats is read as its first occurrence
LocalToInstant(z, d, w) ==
  LET base == DayStart(z, d)
  IN  IF d # z.day THEN base + w
      ELSE IF z.kind = "spring" THEN (IF w >= 3 * 60 THEN base + w - 60 ELSE base + w)
      ELSE IF z.kind = "fall" THEN (IF w >= 2 * 60 THEN base + w + 60 ELSE base + w)
      ELSE base + w

timeToMinutes(time) == time[1] * 60 + time[2]

\* a string that is no ISO 8601 date parses to an Invalid Date, without an error
parseISO(z, s) ==
  CASE s.kind = "invalid" -> InvalidDate
    [] s.kind = "instant" -> s.t
    [] s.kind = "local" -> LocalToInstant(z, s.date, timeToMinutes(s.time))
    [] OTHER -> DayStart(z, s.date)

\* new Date(string).getTime() of a stamp written by toISOString
DateGetTime(s) == s.t

(***************************************************************************)
(* Slot generator.                                                         *)
(***************************************************************************)
generateDaySlots(z, date) ==
  LET dayStart == startOfDay(z, date)
  IN  [i \in 1 .. ((24 * 60) \div SLOT_MINUTES) |->
         LET slotTime == addMinutes(dayStart, (i - 1) * SLOT_MINUTES)
         IN  [time |-> formatHHmm(z, slotTime),
              datetime |-> toISOString(slotTime),
              status |-> "Blank",
              ruleId |-> Undefined,
              sessionId |-> Undefined]]

(***************************************************************************)
(* Rule applicability.  An optional field of a rule is a field the record  *)
(* may lack.                                                               *)
(***************************************************************************)
Has(r, f) == f \in DOMAIN r

recurringRuleApplies(z, rule, date) ==
  IF rule.ruleType # "recurring" THEN FALSE
  ELSE IF ~Has(rule, "recurrenceDays") \/ rule.recurrenceDays = {} THEN FALSE
  ELSE IF DAY_MAP[getDay(z, date)] \notin rule.recurrenceDays THEN FALSE
  ELSE IF Has(rule, "effectiveFrom") /\ isBefore(date, parseISO(z, rule.effectiveFrom))
       THEN FALSE
  ELSE IF Has(rule, "effectiveUntil") /\ isAfter(date, parseISO(z, rule.effectiveUntil))
       THEN FALSE
  ELSE TRUE

oneTimeRuleApplies(z, rule, slotStart, slotEnd) ==
  IF rule.ruleType # "one-time" THEN FALSE
  ELSE IF ~Has(rule, "startDateTime") \/ ~Has(rule, "endDateTime") THEN FALSE
  ELSE isBefore(slotStart, parseISO(z, rule.endDateTime))
         /\ isAfter(slotEnd, parseISO(z, rule.startDateTime))

\* variant: the end of the time window counts as inside
recurringSlotAppliesInclusive(rule, slotTime) ==
  IF ~Has(rule, "startTime") \/ ~Has(rule, "endTime") THEN FALSE
  ELSE LET slotMinutes == timeToMinutes(slotTime)
           startMinutes == timeToMinutes(rule.startTime)
           endMinutes == timeToMinutes(rule.endTime)
       IN  IF endMinutes <= startMinutes
           THEN slotMinutes >= startMinutes \/ slotMinutes <= endMinutes
           ELSE slotMinutes >= startMinutes /\ slotMinutes <= endMinutes

\* variant: a window that does not end after its start matches nothing
recurringSlotAppliesNoWrap(rule, slotTime) ==
  IF ~Has(rule, "startTime") \/ ~Has(rule, "endTime") THEN FALSE
  ELSE LET slotMinutes == timeToMinutes(slotTime)
           startMinutes == timeToMinutes(rule.startTime)
           endMinutes == timeToMinutes(rule.endTime)
       IN  slotMinutes >= startMinutes /\ slotMinutes < endMinutes

recurringSlotApplies(rule, slotTime) ==
  IF ~Has(rule, "startTime") \/ ~Has(rule, "endTime") THEN FALSE
  ELSE LET slotMinutes == timeToMinutes(slotTime)
           startMinutes == timeToMinutes(rule.startTime)
           endMinutes == timeToMinutes(rule.endTime)
       IN  IF endMinutes <= startMinutes
           THEN slotMinutes >= startMinutes \/ slotMinutes < endMinutes
           ELSE slotMinutes >= startMinutes /\ slotMinutes < endMinutes

\* variant: only a slot that lies inside the session counts
sessionCoversWholeSlot(z, session, slotStart, slotEnd) ==
  ~isBefore(slotStart, parseISO(z, session.start))
    /\ ~isAfter(slotEnd, parseISO(z, session.end))

sessionCoversSlot(z, session, slotStart, slotEnd) ==
  isBefore(slotStart, parseISO(z, session.end))
    /\ isAfter(slotEnd, parseISO(z, session.start))

(***************************************************************************)
(* Resolution.                                                             *)
(***************************************************************************)
\* the comparator of the recency sort
compareUpdatedAt(a, b) == DateGetTime(a.updatedAt) - DateGetTime(b.updatedAt)

\* variant: an element goes before the elements it compares equal to
RECURSIVE InsertSortedBeforeEqual(_, _)
InsertSortedBeforeEqual(sorted, r) ==
  IF sorted = <<>> THEN <<r>>
  ELSE IF compareUpdatedAt(sorted[Len(sorted)], r) < 0 THEN Append(sorted, r)
  ELSE Append(InsertSortedBeforeEqual(SubSeq(sorted, 1, Len(sorted) - 1), r),
              sorted[Len(sorted)])

\* Array.prototype.sort is stable: an element goes after every element that
\* does not compare greater than it
RECURSIVE InsertSorted(_, _)
InsertSorted(sorted, r) ==
  IF sorted = <<>> THEN <<r>>
  ELSE IF compareUpdatedAt(sorted[Len(sorted)], r) <= 0 THEN Append(sorted, r)
  ELSE Append(InsertSorted(SubSeq(sorted, 1, Len(sorted) - 1), r), sorted[Len(sorted)])

\* variant: the rules stay in the order of the input array
rulesInInputOrder(rs) == rs

RECURSIVE sortedRules(_)
sortedRules(rs) ==
  IF rs = <<>> THEN <<>>
  ELSE InsertSorted(sortedRules(SubSeq(rs, 1, Len(rs) - 1)), rs[Len(rs)])

\* does the rule write the slot in the rule loop
ruleApplies(z, rule, currentDate, slot) ==
  LET slotStart == parseISO(z, slot.datetime)
      slotEnd == addMinutes(slotStart, SLOT_MINUTES)
  IN  \/ rule.ruleType = "one-time" /\ oneTimeRuleApplies(z, rule, slotStart, slotEnd)
      \/ /\ rule.ruleType = "recurring"
         /\ recurringRuleApplies(z, rule, currentDate)
         /\ recurringSlotApplies(rule, slot.time)

\* variant: a matching rule overwrites the status and leaves ruleId alone
RECURSIVE applyRulesStatusOnly(_, _, _, _, _)
applyRulesStatusOnly(z, sorted, i, currentDate, slot) ==
  IF i > Len(sorted) THEN slot
  ELSE applyRulesStatusOnly(z, sorted, i + 1, currentDate,
         IF ruleApplies(z, sorted[i], currentDate, slot)
         THEN [slot EXCEPT !.status = sorted[i].status]
         ELSE slot)

\* the rule loop of one slot: every matching rule overwrites status and ruleId
RECURSIVE applyRules(_, _, _, _, _)
applyRules(z, sorted, i, currentDate, slot) ==
  IF i > Len(sorted) THEN slot
  ELSE applyRules(z, sorted, i + 1, currentDate,
         IF ruleApplies(z, sorted[i], currentDate, slot)
         THEN [slot EXCEPT !.status = sorted[i].status, !.ruleId = sorted[i].id]
         ELSE slot)

\* the session loop of one slot: the first covering session books it
\* variant: the session loop has no break, the last covering session stays
applySessionsLastMatch(z, ss, slot) ==
  LET slotStart == parseISO(z, slot.datetime)
      slotEnd == addMinutes(slotStart, SLOT_MINUTES)
      covering == {j \in 1 .. Len(ss) : sessionCoversSlot(z, ss[j], slotStart, slotEnd)}
  IN  IF covering = {} THEN slot
      ELSE LET last == CHOOSE j \in covering : \A k \in covering : j >= k
           IN  [slot EXCEPT !.status = "Booked", !.sessionId = ss[last].id]

\* variant: booking a slot drops the rule recorded on it
applySessionsClearRule(z, ss, slot) ==
  LET slotStart == parseISO(z, slot.datetime)
      slotEnd == addMinutes(slotStart, SLOT_MINUTES)
      covering == {j \in 1 .. Len(ss) : sessionCoversSlot(z, ss[j], slotStart, slotEnd)}
  IN  IF covering = {} THEN slot
      ELSE LET first == CHOOSE j \in covering : \A k \in covering : j <= k
           IN  [slot EXCEPT !.status = "Booked", !.sessionId = ss[first].id,
                            !.ruleId = Undefined]

applySessions(z, ss, slot) ==
  LET slotStart == parseISO(z, slot.datetime)
      slotEnd == addMinutes(slotStart, SLOT_MINUTES)
      covering == {j \in 1 .. Len(ss) : sessionCoversSlot(z, ss[j], slotStart, slotEnd)}
  IN  IF covering = {} THEN slot
      ELSE LET first == CHOOSE j \in covering : \A k \in covering : j <= k
           IN  [slot EXCEPT !.status = "Booked", !.sessionId = ss[first].id]

\* one iteration of the day loop
resolveDay(z, rs, ss, currentDate) ==
  LET slots == generateDaySlots(z, currentDate)
      sorted == sortedRules(rs)
  IN  [date |-> formatDate(z, currentDate),
       dayName |-> formatEEE(z, currentDate),
       slots |-> [i \in DOMAIN slots |->
                    applySessions(z, ss, applyRules(z, sorted, 1, currentDate, slots[i]))]]

RECURSIVE dayLoop(_, _, _, _, _, _)
dayLoop(z, rs, ss, currentDate, end, result) ==
  IF isBefore(currentDate, end) \/ currentDate = end
  THEN dayLoop(z, rs, ss, addMinutes(currentDate, 24 * 60), end,
               Append(result, resolveDay(z, rs, ss, currentDate)))
  ELSE result

calculateAvailability(z, rs, ss, start, end) ==
  dayLoop(z, rs, ss, startOfDay(z, start), endOfDay(z, end), <<>>)

(***************************************************************************)
(* Roll-up.  The Map of engineer names to days is a sequence of entries in *)
(* insertion order; the five lists of the summary are sequences.           *)
(***************************************************************************)
\* Array.prototype.find: the first day with the target date
\* (index 0 stands for undefined)
findDay(days, targetDate) ==
  LET hits == {i \in 1 .. Len(days) : days[i].date = targetDate}
  IN  IF hits = {} THEN 0
      ELSE CHOOSE i \in hits : \A k \in hits : i <= k

\* variant: the end of the window counts as inside
relevantStatusesInclusive(day, startMinutes, endMinutes) ==
  LET keep(slot) == timeToMinutes(slot.time) >= startMinutes
                      /\ timeToMinutes(slot.time) <= endMinutes
      relevantSlots == SelectSeq(day.slots, keep)
  IN  [i \in 1 .. Len(relevantSlots) |-> relevantSlots[i].status]

\* statuses of the slots of the day inside the window
relevantStatuses(day, startMinutes, endMinutes) ==
  LET keep(slot) == timeToMinutes(slot.time) >= startMinutes
                      /\ timeToMinutes(slot.time) < endMinutes
      relevantSlots == SelectSeq(day.slots, keep)
  IN  [i \in 1 .. Len(relevantSlots) |-> relevantSlots[i].status]

includes(statuses, s) == \E i \in 1 .. Len(statuses) : statuses[i] = s
every(statuses, s) == \A i \in 1 .. Len(statuses) : statuses[i] = s

\* variant: Available is looked for before Maybe
classifyBlankAvailableFirst(statuses) ==
  IF every(statuses, "Blank") THEN "not_set"
  ELSE IF includes(statuses, "Available") THEN "available"
  ELSE IF includes(statuses, "Maybe") THEN "maybe"
  ELSE "not_set"

\* the branch taken when some slot of the window is Blank
classifyBlank(statuses) ==
  IF every(statuses, "Blank") THEN "not_set"
  ELSE IF includes(statuses, "Maybe") THEN "maybe"
  ELSE IF includes(statuses, "Available") THEN "available"
  ELSE "not_set"

\* variant: Unavailable is looked for before Booked
classifyStatusesUnavailableFirst(statuses) ==
  IF includes(statuses, "Unavailable") THEN "unavailable"
  ELSE IF includes(statuses, "Booked") THEN "booked"
  ELSE IF includes(statuses, "Blank") THEN classifyBlank(statuses)
  ELSE IF includes(statuses, "Maybe") THEN "maybe"
  ELSE IF every(statuses, "Available") THEN "available"
  ELSE "not_set"

\* variant: a window with a Blank slot is never more than not_set
classifyStatusesBlankUnset(statuses) ==
  IF includes(statuses, "Booked") THEN "booked"
  ELSE IF includes(statuses, "Unavailable") THEN "unavailable"
  ELSE IF includes(statuses, "Blank") THEN "not_set"
  ELSE IF includes(statuses, "Maybe") THEN "maybe"
  ELSE IF every(statuses, "Available") THEN "available"
  ELSE "not_set"

\* variant: Maybe is looked for before Unavailable
classifyStatusesMaybeFirst(statuses) ==
  IF includes(statuses, "Booked") THEN "booked"
  ELSE IF includes(statuses, "Maybe") THEN "maybe"
  ELSE IF includes(statuses, "Unavailable") THEN "unavailable"
  ELSE IF includes(statuses, "Blank") THEN classifyBlank(statuses)
  ELSE IF every(statuses, "Available") THEN "available"
  ELSE "not_set"

\* the branch chain over the statuses of a window that is not empty
classifyStatuses(statuses) ==
  IF includes(statuses, "Booked") THEN "booked"
  ELSE IF includes(statuses, "Unavailable") THEN "unavailable"
  ELSE IF includes(statuses, "Blank") THEN classifyBlank(statuses)
  ELSE IF includes(statuses, "Maybe") THEN "maybe"
  ELSE IF every(statuses, "Available") THEN "available"
  ELSE "not_set"

\* the list the engineer is pushed to
classify(days, targetDate, startMinutes, endMinutes) ==
  LET targetDay == findDay(days, targetDate)
  IN  IF targetDay = 0 THEN "not_set"
      ELSE LET statuses == relevantStatuses(days[targetDay], startMinutes, endMinutes)
           IN  IF Len(statuses) = 0 THEN "not_set"
               ELSE classifyStatuses(statuses)

Buckets == {"available", "maybe", "unavailable", "booked", "not_set"}

\* variant: an engineer without a day for the target date is passed over
RECURSIVE summaryLoopSkipMissing(_, _, _, _, _, _)
summaryLoopSkipMissing(entries, i, targetDate, startMinutes, endMinutes, acc) ==
  IF i > Len(entries) THEN acc
  ELSE LET b == classify(entries[i].days, targetDate, startMinutes, endMinutes)
       IN  summaryLoopSkipMissing(entries, i + 1, targetDate, startMinutes, endMinutes,
             IF findDay(entries[i].days, targetDate) = 0 THEN acc
             ELSE [acc EXCEPT ![b] = Append(@, entries[i].name)])

RECURSIVE summaryLoop(_, _, _, _, _, _)
summaryLoop(entries, i, targetDate, startMinutes, endMinutes, acc) ==
  IF i > Len(entries) THEN acc
  ELSE LET b == classify(entries[i].days, targetDate, startMinutes, endMinutes)
       IN  summaryLoop(entries, i + 1, targetDate, startMinutes, endMinutes,
                       [acc EXCEPT ![b] = Append(@, entries[i].name)])

getAvailabilitySummary(entries, targetDate, startTime, endTime) ==
  summaryLoop(entries, 1, targetDate, timeToMinutes(startTime), timeToMinutes(endTime),
              [b \in Buckets |-> <<>>])

(***************************************************************************)
(* Inputs.  Friday is calendar day 1.                                      *)
(***************************************************************************)
engineers == << [id |-> "recMarcus", name |-> "Marcus"],
                [id |-> "recAna", name |-> "Ana"] >>

Friday == CHOOSE d \in 0..6 : DAY_MAP[(d + 4) % 7] = "Fri"

LocalIso(d, time) == [kind |-> "local", date |-> d, time |-> time]

OneTime(eng, status, from, until, stamp) ==
  [engineerId |-> eng, status |-> status, ruleType |-> "one-time",
   startDateTime |-> from, endDateTime |-> until,
   source |-> "web_app", updatedAt |-> toISOString(stamp)]

Recurring(eng, status, days, startTime, endTime, stamp) ==
  [engineerId |-> eng, status |-> status, ruleType |-> "recurring",
   startTime |-> startTime, endTime |-> endTime, recurrenceDays |-> days,
   source |-> "chatbot", updatedAt |-> toISOString(stamp)]

\* the store gives every record its id
WithIds(rs, prefix) ==
  [i \in 1 .. Len(rs) |-> [f \in DOMAIN rs[i] \cup {"id"} |->
                              IF f = "id" THEN prefix \o ToString(i) ELSE rs[i][f]]]

\* the rule shapes of the documented scenarios: Available on Friday from 13:00
\* to 22:00 (A), Unavailable on Friday from 18:00 to 20:00 (B), each as a
\* one-time rule (1) and as a recurring rule (2), and the recurring overnight
\* rule from 22:00 to 04:00 (N)
Shapes == {"A1", "B1", "A2", "B2", "N"}
ScenarioShapes == Shapes \ {"N"}

ShapeStatus(shape) ==
  CASE shape \in {"A1", "A2"} -> "Available"
    [] shape \in {"B1", "B2"} -> "Unavailable"
    [] OTHER -> "Maybe"

ShapeRule(shape, status, stamp) ==
  CASE shape = "A1" -> OneTime("recMarcus", status, LocalIso(Friday, <<13, 0>>),
                               LocalIso(Friday, <<22, 0>>), stamp)
    [] shape = "B1" -> OneTime("recMarcus", status, LocalIso(Friday, <<18, 0>>),
                               LocalIso(Friday, <<20, 0>>), stamp)
    [] shape = "A2" -> Recurring("recMarcus", status, {"Fri"}, <<13, 0>>, <<22, 0>>, stamp)
    [] shape = "B2" -> Recurring("recMarcus", status, {"Fri"}, <<18, 0>>, <<20, 0>>, stamp)
    [] OTHER -> Recurring("recMarcus", status, {"Fri"}, <<22, 0>>, <<4, 0>>, stamp)

RuleChoices == ScenarioShapes \X (1 .. MaxStamp)

RuleArrays ==
  UNION {{WithIds([i \in 1 .. n |-> ShapeRule(c[i][1], ShapeStatus(c[i][1]), c[i][2])],
                  "rule") :
            c \in [1 .. n -> RuleChoices]} : n \in 0 .. MaxRules}

Session(eng, from, until) ==
  [title |-> "Session", engineerId |-> eng,
   start |-> toISOString(from), end |-> toISOString(until)]

\* a session from 19:45 to 20:15 on Friday
EveningSession ==
  Session("recMarcus", Friday * 24 * 60 + 19 * 60 + 45, Friday * 24 * 60 + 20 * 60 + 15)

\* family 1: rule arrays of the documented shapes, Friday and Saturday
InitRules ==
  /\ zone = [kind |-> "none", day |-> 0]
  /\ rules \in RuleArrays
  /\ sessions \in {<<>>, WithIds(<<EveningSession>>, "session")}
  /\ startDate = DayStart(zone, Friday)
  /\ endDate = DayStart(zone, Friday + 1)
  /\ requested = <<engineers[1]>>

\* family 2: every zone and every date range, a few rule arrays
CalendarRuleArrays ==
  { <<>>,
    WithIds(<<ShapeRule("A1", "Available", 1), ShapeRule("B2", "Unavailable", 2)>>, "rule"),
    WithIds(<<ShapeRule("B1", "Unavailable", 2), ShapeRule("A2", "Available", 1)>>, "rule"),
    WithIds(<<ShapeRule("N", "Maybe", 1)>>, "rule"),
    WithIds(<<ShapeRule("N", "Maybe", 2), ShapeRule("B1", "Unavailable", 1)>>, "rule") }

InitCalendar ==
  /\ zone \in Zones
  /\ rules \in CalendarRuleArrays
  /\ sessions = <<>>
  /\ \E d1 \in Days, d2 \in Days :
        /\ d1 <= d2
        /\ startDate = DayStart(zone, d1) + 13 * 60 + 30
        /\ endDate = DayStart(zone, d2) + 18 * 60
  /\ requested = <<engineers[1]>>

\* family 3: the slots from 09:00 on Friday of Marcus take every status,
\* the same slots of Ana take one status
SlotStatuses == {"Available", "Maybe", "Unavailable", "Booked", "Blank"}
WindowStart == <<9, 0>>
SlotIso(i) == Friday * 24 * 60 + timeToMinutes(WindowStart) + (i - 1) * SLOT_MINUTES

RECURSIVE PatternRules(_, _, _)
PatternRules(eng, p, i) ==
  IF i > Len(p) THEN <<>>
  ELSE (IF p[i] \in {"Available", "Maybe", "Unavailable"}
        THEN <<OneTime(eng, p[i], toISOString(SlotIso(i)), toISOString(SlotIso(i + 1)), 1)>>
        ELSE <<>>) \o PatternRules(eng, p, i + 1)

RECURSIVE PatternSessions(_, _, _)
PatternSessions(eng, p, i) ==
  IF i > Len(p) THEN <<>>
  ELSE (IF p[i] = "Booked" THEN <<Session(eng, SlotIso(i), SlotIso(i + 1))>> ELSE <<>>)
         \o PatternSessions(eng, p, i + 1)

InitStatuses ==
  /\ zone = [kind |-> "none", day |-> 0]
  /\ \E p \in [1 .. WindowSlots -> SlotStatuses], u \in SlotStatuses :
        LET q == [i \in 1 .. WindowSlots |-> u]
        IN  /\ rules = WithIds(PatternRules("recMarcus", p, 1)
                                 \o PatternRules("recAna", q, 1), "rule")
            /\ sessions = WithIds(PatternSessions("recMarcus", p, 1)
                                    \o PatternSessions("recAna", q, 1), "session")
  /\ startDate = DayStart(zone, Friday)
  /\ endDate = DayStart(zone, Friday)
  /\ requested = engineers

\* family 4: one one-time rule whose bounds lie around the slot from 10:00 to
\* 10:30 on Friday, at, between and across the slot boundaries, in both orders
BoundaryOffsets == {0 - 30, 0 - 10, 0, 10, 20, 30, 40, 60}
BoundarySlot == Friday * 24 * 60 + 10 * 60

InitOneTime ==
  /\ zone = [kind |-> "none", day |-> 0]
  /\ \E a \in BoundaryOffsets, b \in BoundaryOffsets :
        rules = WithIds(<<OneTime("recMarcus", "Available",
                                  toISOString(BoundarySlot + a),
                                  toISOString(BoundarySlot + b), 1)>>, "rule")
  /\ sessions = <<>>
  /\ startDate = DayStart(zone, Friday)
  /\ endDate = DayStart(zone, Friday)
  /\ requested = <<engineers[1]>>

\* family 5: a well-formed rule together with a record that lacks a field or
\* carries a string that is no timestamp, and sessions of the same kinds
Without(r, f) == [g \in DOMAIN r \ {f} |-> r[g]]
With(r, f, v) == [g \in DOMAIN r \cup {f} |-> IF g = f THEN v ELSE r[g]]
NotATimestamp == [kind |-> "invalid"]

MalformedRules ==
  LET o == ShapeRule("B1", "Unavailable", MaxStamp)
      w == ShapeRule("B2", "Unavailable", MaxStamp)
  IN  { Without(o, "startDateTime"), Without(o, "endDateTime"),
        With(o, "startDateTime", NotATimestamp), With(o, "endDateTime", NotATimestamp),
        Without(w, "recurrenceDays"), Without(w, "startTime"), Without(w, "endTime"),
        With(w, "effectiveFrom", NotATimestamp), With(w, "effectiveUntil", NotATimestamp) }

MalformedSessions ==
  { With(EveningSession, "start", NotATimestamp),
    With(EveningSession, "end", NotATimestamp) }

InitMalformed ==
  /\ zone = [kind |-> "none", day |-> 0]
  /\ \E c \in RuleChoices, m \in MalformedRules \cup {<<>>}, first \in BOOLEAN :
        LET good == ShapeRule(c[1], ShapeStatus(c[1]), c[2])
        IN  rules = WithIds(IF m = <<>> THEN <<good>>
                            ELSE IF first THEN <<m, good>> ELSE <<good, m>>, "rule")
  /\ \E ss \in {<<>>, <<EveningSession>>} \cup {<<t>> : t \in MalformedSessions} :
        sessions = WithIds(ss, "session")
  /\ startDate = DayStart(zone, Friday)
  /\ endDate = DayStart(zone, Friday)
  /\ requested = <<engineers[1]>>

\* family 6: a session store of up to MaxSessions sessions of either engineer
\* that lie before, across, at and inside the bounds of the queried range
MaxSessions == 2

SessionSpans ==
  LET f == Friday * 24 * 60
  IN  { <<f - 60, f + 60>>, <<f, f + 60>>, <<f + 19 * 60 + 45, f + 20 * 60 + 15>>,
        <<f + 47 * 60, f + 49 * 60>>, <<f + 49 * 60, f + 50 * 60>> }

SessionChoices == {"recMarcus", "recAna"} \X SessionSpans

InitSessions ==
  /\ zone = [kind |-> "none", day |-> 0]
  /\ rules = <<>>
  /\ \E n \in 0 .. MaxSessions : \E c \in [1 .. n -> SessionChoices] :
        sessions = WithIds([i \in 1 .. n |-> Session(c[i][1], c[i][2][1], c[i][2][2])],
                           "session")
  /\ startDate = DayStart(zone, Friday)
  /\ endDate = DayStart(zone, Friday)
  /\ requested = <<engineers[1]>>

\* family 7: an empty rule store in every zone, for the write paths
InitStore ==
  /\ zone \in Zones
  /\ rules = <<>>
  /\ sessions = <<>>
  /\ startDate = DayStart(zone, 0)
  /\ endDate = DayStart(zone, NumDays - 1)
  /\ requested = <<engineers[1]>>

\* family 8: an empty store and the two days the calendar picks lie on
InitPicks ==
  /\ zone = [kind |-> "none", day |-> 0]
  /\ rules = <<>>
  /\ sessions = <<>>
  /\ startDate = DayStart(zone, Friday)
  /\ endDate = DayStart(zone, Friday + 1)
  /\ requested = <<engineers[1]>>

\* a field that may be absent: no field, or the field with one of the values
Optional(f, values) == {<<>>} \cup {[g \in {f} |-> v] : v \in values}

\* the union of records with disjoint fields
Merge(a, b) == [f \in (DOMAIN a) \cup (DOMAIN b) |-> IF f \in DOMAIN a THEN a[f] ELSE b[f]]

\* family 9: one recurring rule with and without effective bounds, with a
\* plain, an overnight and an empty time window, in every zone and range
RecurringWindows == { << <<0, 0>>, <<0, 0>> >>, << <<9, 0>>, <<10, 30>> >>,
                      << <<22, 0>>, <<4, 0>> >> }
RecurringDaySets == { {"Fri"}, {"Thu", "Fri", "Sat", "Sun"} }
DateOnly(d) == [kind |-> "date", date |-> d]

InitRecurring ==
  /\ zone \in Zones
  /\ \E w \in RecurringWindows, days \in RecurringDaySets,
        ef \in Optional("effectiveFrom", {DateOnly(1)}),
        eu \in Optional("effectiveUntil", {DateOnly(1), DateOnly(NumDays - 1)}) :
        rules = WithIds(<<Merge(Recurring("recMarcus", "Available", days, w[1], w[2], 1),
                                Merge(ef, eu))>>, "rule")
  /\ sessions = <<>>
  /\ \E d1 \in Days, d2 \in Days :
        /\ d1 <= d2
        /\ startDate = DayStart(zone, d1)
        /\ endDate = DayStart(zone, d2)
  /\ requested = <<engineers[1]>>

\* family 10: the availability shown by the calendar: GridDays days of
\* GridSlots slots, any of them Booked
GridDays == 2
GridSlots == 2

\* a day as calculateAvailability returns it, cut to its first GridSlots
\* slots, the slots of `booked` overlaid by a session
GridDay(z, d, booked) ==
  LET day == resolveDay(z, <<>>, <<>>, DayStart(z, Friday + d - 1))
  IN  [day EXCEPT !.slots =
         [i \in 1 .. GridSlots |->
            IF <<d, i>> \in booked
            THEN [day.slots[i] EXCEPT !.status = "Booked", !.sessionId = "ses1"]
            ELSE [day.slots[i] EXCEPT !.status = "Available"]]]

InitGrid ==
  /\ zone = [kind |-> "none", day |-> 0]
  /\ rules = <<>>
  /\ sessions = <<>>
  /\ startDate = DayStart(zone, Friday)
  /\ endDate = DayStart(zone, Friday + GridDays - 1)
  /\ requested = <<engineers[1]>>
  /\ \E booked \in SUBSET ((1 .. GridDays) \X (1 .. GridSlots)) :
        engineersAvailability =
          <<[name |-> engineers[1].name,
             days |-> [d \in 1 .. GridDays |-> GridDay(zone, d, booked)]]>>
  /\ passed = <<>>
  /\ query = <<>>
  /\ summary = [b \in {"available", "maybe", "unavailable", "booked", "not_set"} |-> <<>>]
  /\ call = <<>>
  /\ reply = <<>>
  /\ drag = [isDragging |-> FALSE, dragStart |-> <<>>, selectedSlots |-> <<>>]
  /\ clock = Len(rules)
  /\ pc = "shown"

InitOutputs ==
  /\ engineersAvailability = <<>>
  /\ passed = <<>>
  /\ call = <<>>
  /\ reply = <<>>
  /\ drag = [isDragging |-> FALSE, dragStart |-> <<>>, selectedSlots |-> <<>>]
  /\ clock = Len(rules)
  /\ query = <<>>
  /\ summary = [b \in Buckets |-> <<>>]
  /\ pc = "input"

Init ==
  /\ InitRules \/ InitCalendar
  /\ InitOutputs

InitSummary ==
  /\ InitStatuses
  /\ InitOutputs

(***************************************************************************)
(* Operations.                                                             *)
(***************************************************************************)
\* the rules and the sessions read for one engineer
rulesOf(eng) == SelectSeq(rules, LAMBDA r : r.engineerId = eng)
sessionsOf(eng) == SelectSeq(sessions, LAMBDA s : s.engineerId = eng)

\* variant: the rules argument is sorted in place
argumentsSortedInPlace(rs, ss, start, end) ==
  [rules |-> sortedRules(rs), sessions |-> ss, startDate |-> start, endDate |-> end]

\* the arguments as the caller finds them after the call: the sort works on a
\* copy of the rules, the loops only read, and the date helpers return new
\* dates
argumentsAfter(rs, ss, start, end) ==
  [rules |-> rs, sessions |-> ss, startDate |-> start, endDate |-> end]

\* resolve the next requested engineer and put the days into the map
CalculateAvailability ==
  /\ pc = "input"
  /\ LET e == requested[Len(engineersAvailability) + 1]
     IN  /\ engineersAvailability' =
              Append(engineersAvailability,
                     [name |-> e.name,
                      days |-> calculateAvailability(zone, rulesOf(e.id), sessionsOf(e.id),
                                                     startDate, endDate)])
         /\ passed' = Append(passed, argumentsAfter(rulesOf(e.id), sessionsOf(e.id),
                                                    startDate, endDate))
  /\ pc' = IF Len(engineersAvailability') = Len(requested) THEN "resolved" ELSE "input"
  /\ UNCHANGED <<zone, rules, clock, sessions, startDate, endDate, requested, drag, query, summary,
                 call, reply>>

QueryWindows ==
  { <<WindowStart, <<9 + (WindowSlots \div 2), 30 * (WindowSlots % 2)>> >>,
    << <<9, 0>>, <<10, 0>> >>,
    << <<13, 0>>, <<22, 0>> >>,
    << <<17, 30>>, <<20, 30>> >>,
    << <<22, 0>>, <<4, 0>> >> }

GetAvailabilitySummary ==
  /\ pc = "resolved"
  /\ \E targetDate \in {Friday, Friday + 1}, w \in QueryWindows :
        /\ query' = [targetDate |-> targetDate, startTime |-> w[1], endTime |-> w[2]]
        /\ summary' = getAvailabilitySummary(engineersAvailability, targetDate, w[1], w[2])
  /\ pc' = "summarized"
  /\ UNCHANGED <<zone, rules, clock, sessions, startDate, endDate, requested, drag,
                 engineersAvailability, passed, call, reply>>

\* the resolution engine on its own
Next ==
  \/ CalculateAvailability

Spec == Init /\ [][Next]_vars

\* Airtable date functions: strict comparison of two instants
IS_AFTER(a, b) == DateGetTime(a) > DateGetTime(b)
IS_BEFORE(a, b) == DateGetTime(a) < DateGetTime(b)

\* the records the filter formula of getSessions selects, in store order
getSessions(store, from, until, engineerId) ==
  SelectSeq(store, LAMBDA s :
    /\ IS_AFTER(s.start, from)
    /\ IS_BEFORE(s.start, until)
    /\ engineerId # Undefined => s.engineerId = engineerId)

\* the session read of the availability query for one date, as the handler
\* issues it, for one engineer or for all
GetSessions ==
  /\ pc = "input"
  /\ \E date \in {Friday, Friday + 1}, engineerId \in {Undefined, "recMarcus", "recAna"} :
        LET targetDate == parseISO(zone, [kind |-> "date", date |-> date])
            from == toISOString(startOfDay(zone, targetDate))
            until == toISOString(addDays(zone, endOfDay(zone, targetDate), 1))
        IN  /\ call' = [op |-> "getSessions", startDate |-> from, endDate |-> until,
                        engineerId |-> engineerId]
            /\ reply' = getSessions(sessions, from, until, engineerId)
  /\ pc' = "fetched"
  /\ UNCHANGED <<zone, rules, clock, sessions, startDate, endDate, requested, drag,
                 engineersAvailability, passed, query, summary>>

NextSessions ==
  \/ GetSessions

\* the session read on its own
InitSessionStore ==
  /\ InitSessions
  /\ InitOutputs

SpecSessions == InitSessionStore /\ [][NextSessions]_vars

\* String.prototype.toLowerCase on the names the requests use
toLowerCase(str) ==
  CASE str \in {"Marcus", "MARCUS", "marcus"} -> "marcus"
    [] str \in {"Ana", "ana"} -> "ana"
    [] OTHER -> str

\* a < b on two zero-padded HH:mm strings
stringLess(a, b) == a[1] < b[1] \/ (a[1] = b[1] /\ a[2] < b[2])

\* the record the store creates for a rule and the rule returned for it; the
\* store names and stamps its records in the order of their creation, and
\* `created` is the number of records it has created before
createAvailabilityRule(created, rule) ==
  LET typed == IF rule.ruleType = "one-time"
               THEN {"startDateTime", "endDateTime"}
               ELSE {"startTime", "endTime", "recurrenceDays",
                     "effectiveFrom", "effectiveUntil"}
      kept == (DOMAIN rule) \cap ({"engineerId", "status", "ruleType", "source"} \cup typed)
  IN  [f \in kept \cup {"id", "updatedAt"} |->
         IF f = "id" THEN "rule" \o ToString(created + 1)
         ELSE IF f = "updatedAt" THEN toISOString(created + 1)
         ELSE rule[f]]

\* the bodies of the chatbot requests: absent fields are left out
ChatbotTimes == {<<2, 0>>, <<10, 15>>, <<22, 0>>}

ChatbotBodies ==
  {Merge(e, Merge(st, Merge(d, Merge(a, Merge(b, Merge(dy, Merge(ef, eu))))))) :
     ef \in Optional("effective_from", {[kind |-> "date", date |-> 0]}),
     eu \in Optional("effective_until", {[kind |-> "date", date |-> NumDays - 1]}),
     e \in Optional("engineer", {"MARCUS", "recAna", "Nobody"}),
     st \in Optional("status", {"Unavailable"}),
     d \in Optional("date", Days),
     a \in Optional("start_time", ChatbotTimes),
     b \in Optional("end_time", ChatbotTimes),
     dy \in Optional("days", {{}, {"Fri", "Sat"}})}

\* field f of the body under the name g, when the body has it
Renamed(body, f, g) == IF Has(body, f) THEN [h \in {g} |-> body[f]] ELSE <<>>

\* variant: a request that names no engineer falls back to the first one
findEngineerOrFirst(name) ==
  LET hits == {i \in 1 .. Len(engineers) :
                 \/ toLowerCase(engineers[i].name) = toLowerCase(name)
                 \/ engineers[i].id = name}
  IN  IF hits = {} THEN 1 ELSE CHOOSE i \in hits : \A n \in hits : i <= n

\* the engineer whose lower-cased name or whose id the request names
findEngineer(name) ==
  LET hits == {i \in 1 .. Len(engineers) :
                 \/ toLowerCase(engineers[i].name) = toLowerCase(name)
                 \/ engineers[i].id = name}
  IN  IF hits = {} THEN 0 ELSE CHOOSE i \in hits : \A n \in hits : i <= n

\* variant: any weekday list, also an empty one, makes the request recurring
isRecurringAnyList(body) == Has(body, "days")

\* body.days && body.days.length > 0
isRecurring(body) == Has(body, "days") /\ body.days # {}

\* POST /api/chatbot: the response, with the rule when one is created
chatbot(z, created, method, body) ==
  IF method # "POST" THEN [status |-> 405, success |-> FALSE]
  ELSE IF ~Has(body, "engineer") \/ ~Has(body, "status")
  THEN [status |-> 400, success |-> FALSE]
  ELSE IF findEngineer(body.engineer) = 0 THEN [status |-> 404, success |-> FALSE]
  ELSE LET engineer == engineers[findEngineer(body.engineer)]
       IN  IF isRecurring(body)
           THEN IF ~Has(body, "start_time") \/ ~Has(body, "end_time")
                THEN [status |-> 400, success |-> FALSE]
                ELSE [status |-> 201, success |-> TRUE,
                      rule |-> createAvailabilityRule(created,
                                 Merge([engineerId |-> engineer.id, status |-> body.status,
                                        ruleType |-> "recurring",
                                        startTime |-> body.start_time,
                                        endTime |-> body.end_time,
                                        recurrenceDays |-> body.days,
                                        source |-> "chatbot"],
                                       Merge(Renamed(body, "effective_from", "effectiveFrom"),
                                             Renamed(body, "effective_until",
                                                     "effectiveUntil"))))]
           ELSE IF ~Has(body, "date") \/ ~Has(body, "start_time") \/ ~Has(body, "end_time")
                THEN [status |-> 400, success |-> FALSE]
                ELSE LET startDateTime == LocalIso(body.date, body.start_time)
                         endDateTime == LocalIso(body.date, body.end_time)
                         nextDay == formatDate(z,
                                      addMinutes(parseISO(z, [kind |-> "date",
                                                              date |-> body.date]),
                                                 24 * 60))
                         adjustedEndDateTime ==
                           IF stringLess(body.end_time, body.start_time)
                           THEN LocalIso(nextDay, body.end_time)
                           ELSE endDateTime
                     IN  [status |-> 201, success |-> TRUE,
                          rule |-> createAvailabilityRule(created,
                                     [engineerId |-> engineer.id, status |-> body.status,
                                      ruleType |-> "one-time",
                                      startDateTime |-> startDateTime,
                                      endDateTime |-> adjustedEndDateTime,
                                      source |-> "chatbot"])]

\* one request to the chatbot endpoint
Chatbot ==
  /\ pc = "input"
  /\ \E method \in {"GET", "POST"}, body \in ChatbotBodies :
        LET res == chatbot(zone, clock, method, body)
        IN  /\ call' = [op |-> "chatbot", method |-> method, body |-> body]
            /\ reply' = res
            /\ rules' = IF Has(res, "rule") THEN Append(rules, res.rule) ELSE rules
            /\ clock' = IF Has(res, "rule") THEN clock + 1 ELSE clock
  /\ pc' = "written"
  /\ UNCHANGED <<zone, sessions, startDate, endDate, requested, drag,
                 engineersAvailability, passed, query, summary>>

NextChatbot ==
  \/ Chatbot

\* the chatbot write path on its own
InitChatbot ==
  /\ InitStore
  /\ InitOutputs

SpecChatbot == InitChatbot /\ [][NextChatbot]_vars

\* the helper of the calendar page: clock arithmetic that wraps at 24 hours
addMinutesToTime(time, minutes) ==
  LET totalMinutes == timeToMinutes(time) + minutes
  IN  <<(totalMinutes \div 60) % 24, totalMinutes % 60>>

\* Array.prototype.sort without comparator on zero-padded HH:mm strings
RECURSIVE InsertTime(_, _)
InsertTime(sorted, t) ==
  IF sorted = <<>> THEN <<t>>
  ELSE IF ~stringLess(t, sorted[Len(sorted)]) THEN Append(sorted, t)
  ELSE Append(InsertTime(SubSeq(sorted, 1, Len(sorted) - 1), t), sorted[Len(sorted)])

RECURSIVE sortTimes(_)
sortTimes(times) ==
  IF times = <<>> THEN <<>>
  ELSE InsertTime(sortTimes(SubSeq(times, 1, Len(times) - 1)), times[Len(times)])

\* the keys of rulesByDate in insertion order
RECURSIVE pickedDates(_, _)
pickedDates(slots, seen) ==
  IF slots = <<>> THEN <<>>
  ELSE IF slots[1].date \in seen THEN pickedDates(Tail(slots), seen)
  ELSE <<slots[1].date>> \o pickedDates(Tail(slots), seen \cup {slots[1].date})

\* the times pushed under one date
RECURSIVE pickedTimes(_, _)
pickedTimes(slots, date) ==
  IF slots = <<>> THEN <<>>
  ELSE (IF slots[1].date = date THEN <<slots[1].time>> ELSE <<>>)
         \o pickedTimes(Tail(slots), date)

\* the loop over the sorted times of one date: runs of times 30 minutes apart
RECURSIVE coalesce(_, _, _, _, _)
coalesce(sortedTimes, i, rangeStart, rangeEnd, ranges) ==
  IF i > Len(sortedTimes)
  THEN Append(ranges, [start |-> rangeStart, end |-> addMinutesToTime(rangeEnd, 30)])
  ELSE IF timeToMinutes(sortedTimes[i]) - timeToMinutes(rangeEnd) = 30
  THEN coalesce(sortedTimes, i + 1, rangeStart, sortedTimes[i], ranges)
  ELSE coalesce(sortedTimes, i + 1, sortedTimes[i], sortedTimes[i],
                Append(ranges, [start |-> rangeStart,
                                end |-> addMinutesToTime(rangeEnd, 30)]))

\* the one-time rules of the ranges of the dates from position i on
RECURSIVE rangeRules(_, _, _, _, _)
rangeRules(slots, dates, i, engineerId, status) ==
  IF i > Len(dates) THEN <<>>
  ELSE LET sortedTimes == sortTimes(pickedTimes(slots, dates[i]))
           ranges == coalesce(sortedTimes, 2, sortedTimes[1], sortedTimes[1], <<>>)
       IN  [n \in 1 .. Len(ranges) |->
              [engineerId |-> engineerId, status |-> status, ruleType |-> "one-time",
               startDateTime |-> LocalIso(dates[i], ranges[n].start),
               endDateTime |-> LocalIso(dates[i], ranges[n].end),
               source |-> "web_app"]]
             \o rangeRules(slots, dates, i + 1, engineerId, status)

\* the rules handleSlotsSelected posts; none when it returns at once
handleSlotsSelected(slots, selectedEngineer, selectedStatus) ==
  IF selectedEngineer = <<>> \/ Len(slots) = 0
       \/ selectedStatus = "Blank" \/ selectedStatus = "Booked"
  THEN <<>>
  ELSE rangeRules(slots, pickedDates(slots, {}), 1, selectedEngineer[1].id, selectedStatus)

\* the store after the records of a batch are created one after the other
RECURSIVE batchCreateAvailabilityRules(_, _, _)
batchCreateAvailabilityRules(store, created, rs) ==
  IF rs = <<>> THEN store
  ELSE batchCreateAvailabilityRules(Append(store, createAvailabilityRule(created, rs[1])),
                                    created + 1, Tail(rs))

\* the picks of the calendar: up to MaxPicks different slots in any order
MaxPicks == 3
PickTimes == {<<9, 0>>, <<9, 30>>, <<23, 0>>, <<23, 30>>}
Picks == [date : {Friday, Friday + 1}, time : PickTimes]
PickArrays ==
  UNION {{a \in [1 .. n -> Picks] : \A i \in 1 .. n, j \in 1 .. n : i # j => a[i] # a[j]} :
           n \in 0 .. MaxPicks}

\* a selection on the calendar page is saved through POST /api/rules
HandleSlotsSelected ==
  /\ pc = "input"
  /\ DOMAIN call = {}
  /\ \E slots \in PickArrays, selectedEngineer \in {<<>>, <<engineers[1]>>},
        selectedStatus \in SlotStatuses :
        LET posted == handleSlotsSelected(slots, selectedEngineer, selectedStatus)
        IN  /\ call' = [op |-> "handleSlotsSelected", slots |-> slots,
                        selectedEngineer |-> selectedEngineer,
                        selectedStatus |-> selectedStatus]
            /\ reply' = posted
            /\ rules' = batchCreateAvailabilityRules(rules, clock, posted)
            /\ clock' = clock + Len(posted)
  /\ UNCHANGED <<zone, sessions, startDate, endDate, requested, drag,
                 engineersAvailability, passed, query, summary, pc>>

NextCalendar ==
  \/ HandleSlotsSelected
  \/ CalculateAvailability

\* the calendar write path followed by the resolution of the written rules
InitCalendarPage ==
  /\ InitPicks
  /\ InitOutputs

SpecCalendar == InitCalendarPage /\ [][NextCalendar]_vars

InitRecurringInput ==
  /\ InitRecurring
  /\ InitOutputs

\* the engine on one recurring rule
SpecRecurring == InitRecurringInput /\ [][Next]_vars

\* the engine on the sessions of the session store
SpecOverlay == InitSessionStore /\ [][Next]_vars

Max(a, b) == IF a >= b THEN a ELSE b
Min(a, b) == IF a <= b THEN a ELSE b

\* variant: the cells of the rectangle are taken whatever their status
RECURSIVE rectangleUnfiltered(_, _, _, _, _, _)
rectangleUnfiltered(availability, d, maxDay, s, minSlot, maxSlot) ==
  IF d > maxDay THEN <<>>
  ELSE IF s > maxSlot
  THEN rectangleUnfiltered(availability, d + 1, maxDay, minSlot, minSlot, maxSlot)
  ELSE (IF d <= Len(availability) THEN << <<d, s>> >> ELSE <<>>)
         \o rectangleUnfiltered(availability, d, maxDay, s + 1, minSlot, maxSlot)

\* the cells of the rows minSlot..maxSlot of the day columns from d on, in
\* the order of the two loops
RECURSIVE rectangle(_, _, _, _, _, _)
rectangle(availability, d, maxDay, s, minSlot, maxSlot) ==
  IF d > maxDay THEN <<>>
  ELSE IF s > maxSlot
  THEN rectangle(availability, d + 1, maxDay, minSlot, minSlot, maxSlot)
  ELSE (IF d <= Len(availability)
             /\ (s > Len(availability[d].slots)
                   \/ availability[d].slots[s].status # "Booked")
        THEN << <<d, s>> >> ELSE <<>>)
         \o rectangle(availability, d, maxDay, s + 1, minSlot, maxSlot)

handleMouseDown(state, dayIndex, slotIndex, slot) ==
  IF slot.status = "Booked" THEN state
  ELSE [isDragging |-> TRUE, dragStart |-> <<dayIndex, slotIndex>>,
        selectedSlots |-> << <<dayIndex, slotIndex>> >>]

handleMouseEnter(availability, state, dayIndex, slotIndex, slot) ==
  IF ~state.isDragging \/ slot.status = "Booked" THEN state
  ELSE [state EXCEPT !.selectedSlots =
          IF state.dragStart = <<>> THEN <<>>
          ELSE LET minDay == Min(state.dragStart[1], dayIndex)
                   maxDay == Max(state.dragStart[1], dayIndex)
                   minSlot == Min(state.dragStart[2], slotIndex)
                   maxSlot == Max(state.dragStart[2], slotIndex)
               IN  rectangle(availability, minDay, maxDay, minSlot, minSlot, maxSlot)]

\* the slots handleMouseUp passes to onSlotsSelected
RECURSIVE selectedToSlots(_, _)
selectedToSlots(availability, keys) ==
  IF keys = <<>> THEN <<>>
  ELSE LET dayIndex == keys[1][1]
           slotIndex == keys[1][2]
       IN  (IF dayIndex <= Len(availability)
                 /\ slotIndex <= Len(availability[dayIndex].slots)
            THEN <<[date |-> availability[dayIndex].date,
                    time |-> availability[dayIndex].slots[slotIndex].time]>>
            ELSE <<>>) \o selectedToSlots(availability, Tail(keys))

\* the availability prop of the calendar
Shown == engineersAvailability[1].days

\* the calendar is rendered; pc names the handler that ran last
Rendered == pc \in {"shown", "mousedown", "mouseenter", "mouseup"}

MouseDown ==
  /\ Rendered
  /\ \E d \in 1 .. Len(Shown) : \E s \in 1 .. Len(Shown[d].slots) :
        drag' = handleMouseDown(drag, d, s, Shown[d].slots[s])
  /\ pc' = "mousedown"
  /\ UNCHANGED <<zone, rules, clock, sessions, startDate, endDate, requested,
                 engineersAvailability, passed, query, summary, call, reply>>

MouseEnter ==
  /\ Rendered
  /\ \E d \in 1 .. Len(Shown) : \E s \in 1 .. Len(Shown[d].slots) :
        drag' = handleMouseEnter(Shown, drag, d, s, Shown[d].slots[s])
  /\ pc' = "mouseenter"
  /\ UNCHANGED <<zone, rules, clock, sessions, startDate, endDate, requested,
                 engineersAvailability, passed, query, summary, call, reply>>

\* the window's mouseup listener
MouseUp ==
  /\ Rendered
  /\ call' = IF drag.isDragging /\ Len(drag.selectedSlots) > 0
             THEN [op |-> "onSlotsSelected",
                   slots |-> selectedToSlots(Shown, drag.selectedSlots)]
             ELSE call
  /\ drag' = [isDragging |-> FALSE, dragStart |-> <<>>, selectedSlots |-> <<>>]
  /\ pc' = "mouseup"
  /\ UNCHANGED <<zone, rules, clock, sessions, startDate, endDate, requested,
                 engineersAvailability, passed, query, summary, reply>>

NextDrag ==
  \/ MouseDown
  \/ MouseEnter
  \/ MouseUp

\* the drag selection of the weekly calendar
SpecDrag == InitGrid /\ [][NextDrag]_vars

\* family 11: an empty rule table, a session or none on the second slot of
\* the window, and two views of the first engineer's Friday
MaxCreated == 2

InitTable ==
  /\ zone = [kind |-> "none", day |-> 0]
  /\ rules = <<>>
  /\ sessions \in {<<>>, WithIds(<<Session(engineers[1].id, SlotIso(2), SlotIso(3))>>,
                                  "ses")}
  /\ startDate = DayStart(zone, Friday)
  /\ endDate = DayStart(zone, Friday)
  /\ requested = <<engineers[1], engineers[1]>>

\* the rules posted to /api/rules: two one-time rules on the first two slots
\* of the window and a recurring Friday rule on its second and third slot
PostedRules ==
  {[engineerId |-> engineers[1].id, status |-> st, ruleType |-> "one-time",
    startDateTime |-> toISOString(SlotIso(1)), endDateTime |-> toISOString(SlotIso(3)),
    source |-> "web_app"] : st \in {"Available", "Maybe"}}
  \cup
  {[engineerId |-> engineers[1].id, status |-> "Unavailable", ruleType |-> "recurring",
    startTime |-> addMinutesToTime(WindowStart, SLOT_MINUTES),
    endTime |-> addMinutesToTime(WindowStart, 3 * SLOT_MINUTES),
    recurrenceDays |-> {"Fri"}, source |-> "web_app"]}

\* the request bodies of POST /api/rules: one rule, or an array of rules
PostedBodies ==
  PostedRules \cup {[rules |-> <<a, b>>] : a \in PostedRules, b \in PostedRules}

\* variant: the oldest record is removed, whatever the id
destroyOldest(store, ruleId) ==
  [found |-> \E i \in 1 .. Len(store) : store[i].id = ruleId,
   store |-> IF store = <<>> THEN store ELSE Tail(store)]

\* availabilityTable.destroy: the record with this id is removed; the call
\* fails when the table has no such record
destroy(store, ruleId) ==
  [found |-> \E i \in 1 .. Len(store) : store[i].id = ruleId,
   store |-> SelectSeq(store, LAMBDA r : r.id # ruleId)]

deleteAvailabilityRule(store, ruleId) == destroy(store, ruleId)

\* Array.isArray(req.body.rules)
isArray(body) == Has(body, "rules")

\* /api/rules: the response, the table and the count of created records
\* after the request
rulesHandler(store, created, method, q, body) ==
  CASE method = "GET" ->
         [status |-> 200,
          json |-> IF Has(q, "engineerId")
                   THEN SelectSeq(store, LAMBDA r : r.engineerId = q.engineerId)
                   ELSE store,
          store |-> store, created |-> created]
    [] method = "POST" ->
         IF isArray(body)
         THEN LET after == batchCreateAvailabilityRules(store, created, body.rules)
              IN  [status |-> 201,
                   json |-> SubSeq(after, Len(store) + 1, Len(after)),
                   store |-> after, created |-> created + Len(body.rules)]
         ELSE LET rule == createAvailabilityRule(created, body)
              IN  [status |-> 201, json |-> rule,
                   store |-> Append(store, rule), created |-> created + 1]
    [] method = "DELETE" ->
         IF ~Has(q, "ruleId")
         THEN [status |-> 400, json |-> "Rule ID required",
               store |-> store, created |-> created]
         ELSE LET res == deleteAvailabilityRule(store, q.ruleId)
              IN  IF res.found
                  THEN [status |-> 200, json |-> "success",
                        store |-> res.store, created |-> created]
                  ELSE [status |-> 500, json |-> "Failed to process request",
                        store |-> res.store, created |-> created]
    [] OTHER ->
         [status |-> 405, json |-> "Method not allowed",
          store |-> store, created |-> created]

\* the requests to /api/rules: a GET with or without an engineer, a POST of
\* a body, a DELETE with or without the id of a record that was created or
\* may be, and a method the handler does not serve
RulesRequests ==
  {[method |-> "GET", query |-> q, body |-> <<>>] :
     q \in {<<>>, [engineerId |-> engineers[1].id]}}
  \cup {[method |-> "POST", query |-> <<>>, body |-> b] : b \in PostedBodies}
  \cup {[method |-> "DELETE", query |-> q, body |-> <<>>] :
          q \in {<<>>} \cup {[ruleId |-> "rule" \o ToString(n)] : n \in 1 .. MaxCreated}}
  \cup {[method |-> "PUT", query |-> <<>>, body |-> <<>>]}

\* one request to /api/rules
Rules ==
  /\ pc = "input"
  /\ \E req \in RulesRequests :
        LET res == rulesHandler(rules, clock, req.method, req.query, req.body)
        IN  /\ res.created <= MaxCreated
            /\ call' = [op |-> "rules", method |-> req.method, query |-> req.query,
                        body |-> req.body]
            /\ reply' = [status |-> res.status, json |-> res.json]
            /\ rules' = res.store
            /\ clock' = res.created
  /\ UNCHANGED <<zone, sessions, startDate, endDate, requested, drag,
                 engineersAvailability, passed, query, summary, pc>>

NextTable ==
  \/ Rules
  \/ CalculateAvailability

\* the history of the rule table, with views of the resolved days in between
InitTableHistory ==
  /\ InitTable
  /\ InitOutputs

SpecTable == InitTableHistory /\ [][NextTable]_vars

\* the engine on one-time rules with bounds at any instant
InitOneTimeInput ==
  /\ InitOneTime
  /\ InitOutputs

SpecOneTime == InitOneTimeInput /\ [][Next]_vars

\* the engine on records that are not well formed
InitMalformedInput ==
  /\ InitMalformed
  /\ InitOutputs

SpecMalformed == InitMalformedInput /\ [][Next]_vars

\* resolution of every engineer followed by the roll-up
NextSummary ==
  \/ CalculateAvailability
  \/ GetAvailabilitySummary

SpecSummary == InitSummary /\ [][NextSummary]_vars

(***************************************************************************)
(* Vocabulary of the properties.                                           *)
(***************************************************************************)
\* the arrays passed to calculateAvailability for the k-th entry of the map
PassedRules(k) == rulesOf(requested[k].id)
PassedSessions(k) == sessionsOf(requested[k].id)

\* the value of currentDate in the j-th iteration of the day loop
CurrentDateOf(j) == addMinutes(startOfDay(zone, startDate), (j - 1) * 24 * 60)

\* positions in the array rs of the rules that apply to the slot of day j
Applicable(rs, j, slot) ==
  {i \in 1 .. Len(rs) : ruleApplies(zone, rs[i], CurrentDateOf(j), slot)}

Stamp(r) == DateGetTime(r.updatedAt)

\* [slotStart, slotStart + 30min) and [s.start, s.end) share an instant
Overlaps(s, slot) ==
  \E t \in slot.datetime.t .. (slot.datetime.t + SLOT_MINUTES - 1) :
     parseISO(zone, s.start) <= t /\ t < parseISO(zone, s.end)

NoSessionOverlaps(ss, slot) == \A n \in 1 .. Len(ss) : ~Overlaps(ss[n], slot)

\* every slot of the map satisfies P(rs, ss, j, slot), where rs and ss are the
\* arrays passed to the call that returned the slot and j is the day's position
AllSlots(P(_, _, _, _)) ==
  \A k \in 1 .. Len(engineersAvailability) :
    LET rs == PassedRules(k)
        ss == PassedSessions(k)
        days == engineersAvailability[k].days
    IN  \A j \in 1 .. Len(days) :
          \A i \in 1 .. Len(days[j].slots) : P(rs, ss, j, days[j].slots[i])

SomeSlot(P(_, _, _, _)) ==
  \E k \in 1 .. Len(engineersAvailability) :
    LET rs == PassedRules(k)
        ss == PassedSessions(k)
        days == engineersAvailability[k].days
    IN  \E j \in 1 .. Len(days) :
          \E i \in 1 .. Len(days[j].slots) : P(rs, ss, j, days[j].slots[i])

(***************************************************************************)
(* C1.  Recency wins: a slot no session overlaps never keeps the status of *)
(* an applicable rule R1 when an applicable rule R2 has a later updatedAt; *)
(* its status and ruleId are those of an applicable rule with the greatest *)
(* updatedAt, whatever the rule types and the order of the input array.    *)
(***************************************************************************)
RecencySlot(rs, ss, j, slot) ==
  LET app == Applicable(rs, j, slot)
  IN  (app # {} /\ NoSessionOverlaps(ss, slot)) =>
        /\ \E w \in app :
              /\ \A i \in app : Stamp(rs[i]) <= Stamp(rs[w])
              /\ slot.status = rs[w].status
              /\ slot.ruleId = rs[w].id
        /\ \A i \in app, w \in app :
              Stamp(rs[i]) < Stamp(rs[w]) => slot.ruleId # rs[i].id

RecencyWins == AllSlots(RecencySlot)

\* an older recurring rule and a newer one-time rule of another status meet
\* on a slot, the newer rule first in the array, and the newer rule has won
RecencyWitnessSlot(rs, ss, j, slot) ==
  LET app == Applicable(rs, j, slot)
  IN  /\ NoSessionOverlaps(ss, slot)
      /\ \E i \in app, w \in app :
            /\ w < i
            /\ Stamp(rs[i]) < Stamp(rs[w])
            /\ rs[i].ruleType = "recurring" /\ rs[w].ruleType = "one-time"
            /\ rs[i].status # rs[w].status
            /\ slot.status = rs[w].status

RecencyWitness == SomeSlot(RecencyWitnessSlot)

(***************************************************************************)
(* C2.  Session overlay: every slot whose interval overlaps the interval   *)
(* of a passed session is Booked, whatever rules apply to it.              *)
(***************************************************************************)
SessionSlot(rs, ss, j, slot) ==
  \A n \in 1 .. Len(ss) : Overlaps(ss[n], slot) => slot.status = "Booked"

SessionOverlay == AllSlots(SessionSlot)

\* a slot a session overlaps only in part, to which a rule applies, is Booked
SessionWitnessSlot(rs, ss, j, slot) ==
  /\ \E n \in 1 .. Len(ss) :
        /\ Overlaps(ss[n], slot)
        /\ parseISO(zone, ss[n].start) > slot.datetime.t
  /\ Applicable(rs, j, slot) # {}
  /\ slot.ruleId # Undefined
  /\ slot.status = "Booked"

SessionOverlayWitness == SomeSlot(SessionWitnessSlot)

\* every day of the map satisfies P(rs, ss, j, day)
AllDays(P(_, _, _, _)) ==
  \A k \in 1 .. Len(engineersAvailability) :
    LET days == engineersAvailability[k].days
    IN  \A j \in 1 .. Len(days) : P(PassedRules(k), PassedSessions(k), j, days[j])

SomeDay(P(_, _, _, _)) ==
  \E k \in 1 .. Len(engineersAvailability) :
    LET days == engineersAvailability[k].days
    IN  \E j \in 1 .. Len(days) : P(PassedRules(k), PassedSessions(k), j, days[j])

\* the "HH:mm" of the i-th half hour of a day
HalfHour(i) == <<(i - 1) \div 2, 30 * ((i - 1) % 2)>>

(***************************************************************************)
(* C3.  Every day of the result holds exactly 48 slots with the times      *)
(* 00:00, 00:30, ..., 23:30 in that order, each slot 30 minutes after the  *)
(* one before and inside the day's date, also on a date on which the zone  *)
(* changes its offset; without rules and sessions every slot is Blank with *)
(* no ruleId and no sessionId.                                             *)
(***************************************************************************)
CanonicalDay(rs, ss, j, day) ==
  /\ Len(day.slots) = 48
  /\ \A i \in 1 .. Len(day.slots) :
        /\ day.slots[i].time = HalfHour(i)
        /\ i > 1 => day.slots[i].datetime.t = day.slots[i - 1].datetime.t + 30
        /\ DateOf(zone, day.slots[i].datetime.t) = day.date
        /\ (rs = <<>> /\ ss = <<>>) =>
              /\ day.slots[i].status = "Blank"
              /\ day.slots[i].ruleId = Undefined
              /\ day.slots[i].sessionId = Undefined

DaySlotsCanonical == AllDays(CanonicalDay)

(***************************************************************************)
(* C4.  The result holds exactly one day per calendar date from startDate  *)
(* to endDate, both included, in ascending order, none repeated and none   *)
(* skipped; a range of one date gives a result of length 1.                *)
(***************************************************************************)
OneDayPerDate ==
  \A k \in 1 .. Len(engineersAvailability) :
    LET days == engineersAvailability[k].days
    IN  /\ Len(days) = DateOf(zone, endDate) - DateOf(zone, startDate) + 1
        /\ \A j \in 1 .. Len(days) : days[j].date = DateOf(zone, startDate) + j - 1

(***************************************************************************)
(* C5.  With no sessions and a rule array of which no two rules apply to   *)
(* the same slot, a slot has the status and the ruleId of the one rule     *)
(* that applies to it, and a slot to which no rule applies is Blank with   *)
(* no ruleId.                                                              *)
(***************************************************************************)
NoTwoApply(rs, days) ==
  \A j \in 1 .. Len(days) : \A i \in 1 .. Len(days[j].slots) :
     Cardinality(Applicable(rs, j, days[j].slots[i])) <= 1

SingleRuleSlot(rs, j, slot) ==
  LET app == Applicable(rs, j, slot)
  IN  /\ \A r \in app : slot.status = rs[r].status /\ slot.ruleId = rs[r].id
      /\ app = {} => slot.status = "Blank" /\ slot.ruleId = Undefined

SingleRuleDecides ==
  \A k \in 1 .. Len(engineersAvailability) :
    LET rs == PassedRules(k)
        days == engineersAvailability[k].days
    IN  (PassedSessions(k) = <<>> /\ NoTwoApply(rs, days)) =>
          \A j \in 1 .. Len(days) : \A i \in 1 .. Len(days[j].slots) :
             SingleRuleSlot(rs, j, days[j].slots[i])

\* two rules that never meet have each set a slot of one day, and a slot of
\* that day is left Blank
SingleRuleWitness ==
  \E k \in 1 .. Len(engineersAvailability) :
    LET rs == PassedRules(k)
        days == engineersAvailability[k].days
    IN  /\ PassedSessions(k) = <<>>
        /\ Len(rs) = 2
        /\ NoTwoApply(rs, days)
        /\ \E j \in 1 .. Len(days) :
              /\ \A r \in 1 .. 2 : \E i \in 1 .. Len(days[j].slots) :
                    /\ days[j].slots[i].ruleId = rs[r].id
                    /\ days[j].slots[i].status = rs[r].status
              /\ \E i \in 1 .. Len(days[j].slots) :
                    /\ Applicable(rs, j, days[j].slots[i]) = {}
                    /\ days[j].slots[i].status = "Blank"

(***************************************************************************)
(* C6.  Documented scenario: rule A (Available, Friday 13:00-22:00) and a  *)
(* later updated rule B (Unavailable, the same Friday 18:00-20:00), no     *)
(* sessions: Friday is Available from 13:00 to 17:30, Unavailable from     *)
(* 18:00 to 19:30, Available from 20:00 to 21:30 and Blank elsewhere,      *)
(* whether A and B are one-time or recurring and in either input order.    *)
(***************************************************************************)
IsWindowRule(r, status, from, until) ==
  /\ r.status = status
  /\ \/ /\ r.ruleType = "one-time"
        /\ r.startDateTime = LocalIso(Friday, from)
        /\ r.endDateTime = LocalIso(Friday, until)
     \/ /\ r.ruleType = "recurring"
        /\ r.recurrenceDays = {"Fri"}
        /\ r.startTime = from /\ r.endTime = until
        /\ ~Has(r, "effectiveFrom") /\ ~Has(r, "effectiveUntil")

IsRuleA(r) == IsWindowRule(r, "Available", <<13, 0>>, <<22, 0>>)
IsRuleB(r) == IsWindowRule(r, "Unavailable", <<18, 0>>, <<20, 0>>)

IsScenario(rs, ss) ==
  /\ ss = <<>>
  /\ Len(rs) = 2
  /\ \E a \in 1 .. 2, b \in 1 .. 2 :
        IsRuleA(rs[a]) /\ IsRuleB(rs[b]) /\ Stamp(rs[a]) < Stamp(rs[b])

ScenarioStatus(time) ==
  LET m == timeToMinutes(time)
  IN  IF 13 * 60 <= m /\ m < 18 * 60 THEN "Available"
      ELSE IF 18 * 60 <= m /\ m < 20 * 60 THEN "Unavailable"
      ELSE IF 20 * 60 <= m /\ m < 22 * 60 THEN "Available"
      ELSE "Blank"

ScenarioDay(rs, ss, j, day) ==
  (IsScenario(rs, ss) /\ day.date = Friday) =>
     /\ \A i \in 1 .. Len(day.slots) :
           day.slots[i].status = ScenarioStatus(day.slots[i].time)
     /\ \A h \in 1 .. 48 : \E i \in 1 .. Len(day.slots) :
           (13 * 60 <= timeToMinutes(HalfHour(h)) /\ timeToMinutes(HalfHour(h)) < 22 * 60)
              => day.slots[i].time = HalfHour(h)

FridayScenario == AllDays(ScenarioDay)

\* the scenario with B, one-time, first in the array and A, recurring, second
FridayWitnessDay(rs, ss, j, day) ==
  /\ IsScenario(rs, ss)
  /\ IsRuleB(rs[1]) /\ rs[1].ruleType = "one-time"
  /\ IsRuleA(rs[2]) /\ rs[2].ruleType = "recurring"
  /\ day.date = Friday
  /\ \E i \in 1 .. Len(day.slots) :
        day.slots[i].time = <<18, 0>> /\ day.slots[i].status = "Unavailable"
  /\ \E i \in 1 .. Len(day.slots) :
        day.slots[i].time = <<20, 0>> /\ day.slots[i].status = "Available"
  /\ \E i \in 1 .. Len(day.slots) :
        day.slots[i].time = <<22, 0>> /\ day.slots[i].status = "Blank"

FridayScenarioWitness == SomeDay(FridayWitnessDay)

(***************************************************************************)
(* C7.  Overnight recurring rule (endTime <= startTime): on a day D whose  *)
(* weekday is in recurrenceDays the rule sets the slots from startTime to  *)
(* 23:30, and the part from 00:00 to endTime belongs to the night after    *)
(* D's evening: a slot before endTime is set by the rule exactly when the  *)
(* weekday of the day before is in recurrenceDays.                         *)
(***************************************************************************)
WeekdayOf(d) == DAY_MAP[(d + 4) % 7]

OvernightDay(rs, ss, j, day) ==
  (/\ ss = <<>>
   /\ Len(rs) = 1
   /\ rs[1].ruleType = "recurring"
   /\ timeToMinutes(rs[1].endTime) <= timeToMinutes(rs[1].startTime)) =>
     \A i \in 1 .. Len(day.slots) :
        LET m == timeToMinutes(day.slots[i].time)
        IN  day.slots[i].ruleId = rs[1].id <=>
              \/ /\ WeekdayOf(day.date) \in rs[1].recurrenceDays
                 /\ m >= timeToMinutes(rs[1].startTime)
              \/ /\ WeekdayOf(day.date + 6) \in rs[1].recurrenceDays
                 /\ m < timeToMinutes(rs[1].endTime)

OvernightForwardOnly == AllDays(OvernightDay)

(***************************************************************************)
(* Vocabulary of the roll-up properties.                                   *)
(***************************************************************************)
\* statuses of the slots the query selects for the k-th entry of the map
Selected(k) ==
  LET days == engineersAvailability[k].days
      hits == {j \in 1 .. Len(days) : days[j].date = query.targetDate}
  IN  IF hits = {} THEN {}
      ELSE LET day == days[CHOOSE j \in hits : \A h \in hits : j <= h]
           IN  {day.slots[i].status : i \in
                  {n \in 1 .. Len(day.slots) :
                     /\ timeToMinutes(query.startTime) <= timeToMinutes(day.slots[n].time)
                     /\ timeToMinutes(day.slots[n].time) < timeToMinutes(query.endTime)}}

InList(b, name) == \E i \in 1 .. Len(summary[b]) : summary[b][i] = name

Summarized(P(_, _)) ==
  pc = "summarized" =>
    \A k \in 1 .. Len(engineersAvailability) :
       P(Selected(k), engineersAvailability[k].name)

SomeSummarized(P(_, _)) ==
  /\ pc = "summarized"
  /\ \E k \in 1 .. Len(engineersAvailability) :
        P(Selected(k), engineersAvailability[k].name)

(***************************************************************************)
(* C8.  Poisoning precedence: an engineer with a Booked slot in the window *)
(* is in booked; otherwise an engineer with an Unavailable slot in the     *)
(* window is in unavailable, whatever other slots the window holds.        *)
(***************************************************************************)
PoisonedWindow(S, name) ==
  /\ "Booked" \in S => InList("booked", name)
  /\ ("Booked" \notin S /\ "Unavailable" \in S) => InList("unavailable", name)

PoisoningPrecedence == Summarized(PoisonedWindow)

\* a window with a Booked, an Unavailable and an Available slot is booked
PoisonedWitnessWindow(S, name) ==
  /\ {"Booked", "Unavailable", "Available"} \subseteq S
  /\ InList("booked", name)

PoisoningWitness == SomeSummarized(PoisonedWitnessWindow)

(***************************************************************************)
(* C9.  A window of Blank and Available slots only, with at least one of   *)
(* each, is classified available, not maybe and not not_set.               *)
(***************************************************************************)
BlankAvailableWindow(S, name) ==
  S = {"Blank", "Available"} =>
     /\ InList("available", name)
     /\ ~InList("maybe", name)
     /\ ~InList("not_set", name)

BlankAvailableWitnessWindow(S, name) ==
  S = {"Blank", "Available"} /\ InList("available", name)

MaybeAvailableWindow(S, name) ==
  ("Booked" \notin S /\ "Unavailable" \notin S) =>
     /\ "Maybe" \in S => InList("maybe", name)
     /\ S = {"Available"} => InList("available", name)

MaybeAndAvailable == Summarized(MaybeAvailableWindow)

\* a window with a Maybe, a Blank and an Available slot is maybe
MaybeWitnessWindow(S, name) ==
  S = {"Maybe", "Blank", "Available"} /\ InList("maybe", name)

MaybeAndAvailableWitness == SomeSummarized(MaybeWitnessWindow)

(***************************************************************************)
(* C11.  The summary is a partition: every name that is a key of the map   *)
(* occurs exactly once in the five lists together, and the lists hold no   *)
(* other name.                                                             *)
(***************************************************************************)
Occurrences(name) ==
  Cardinality({<<b, i>> \in Buckets \X (1 .. Len(engineersAvailability)) :
                 i <= Len(summary[b]) /\ summary[b][i] = name})

MapKeys == {engineersAvailability[k].name : k \in 1 .. Len(engineersAvailability)}

SummaryIsPartition ==
  pc = "summarized" =>
    /\ \A name \in MapKeys : Occurrences(name) = 1
    /\ \A b \in Buckets : Len(summary[b]) <= Len(engineersAvailability)
    /\ \A b \in Buckets : \A i \in 1 .. Len(summary[b]) : summary[b][i] \in MapKeys

\* two engineers in two different lists, one of them without a day for the
\* target date
PartitionWitness ==
  /\ pc = "summarized"
  /\ Len(engineersAvailability) = 2
  /\ \E k \in 1 .. 2 : Selected(k) # {}
  /\ \E b \in Buckets, c \in Buckets :
        /\ b # c
        /\ summary[b] = <<engineersAvailability[1].name>>
        /\ summary[c] = <<engineersAvailability[2].name>>

\* both engineers lack a day for the target date and are both listed
MissingDayWitness ==
  /\ pc = "summarized"
  /\ \A k \in 1 .. Len(engineersAvailability) :
        \A j \in 1 .. Len(engineersAvailability[k].days) :
           engineersAvailability[k].days[j].date # query.targetDate
  /\ Len(summary["not_set"]) = 2

(***************************************************************************)
(* C12.  An engineer is classified not_set exactly when no day has the     *)
(* target date, or no slot of that day lies in the window (as for every    *)
(* window with endTime <= startTime), or every selected slot is Blank.     *)
(***************************************************************************)
NotSetWindow(S, name) == InList("not_set", name) <=> (S = {} \/ S = {"Blank"})

Latest(rs, app) == {w \in app : \A i \in app : Stamp(rs[i]) <= Stamp(rs[w])}

TieBreakSlot(rs, ss, j, slot) ==
  LET app == Applicable(rs, j, slot)
      top == Latest(rs, app)
  IN  (app # {} /\ NoSessionOverlaps(ss, slot)) =>
        \E w \in top :
           /\ \A i \in top : i <= w
           /\ slot.status = rs[w].status
           /\ slot.ruleId = rs[w].id

TieBreakLastInput == AllSlots(TieBreakSlot)

\* two applicable rules of equal stamp and different status: the second won
TieBreakWitnessSlot(rs, ss, j, slot) ==
  LET app == Applicable(rs, j, slot)
  IN  /\ NoSessionOverlaps(ss, slot)
      /\ \E i \in app, w \in app :
            /\ i < w
            /\ Stamp(rs[i]) = Stamp(rs[w])
            /\ rs[i].status # rs[w].status
            /\ \A n \in app : n <= w
            /\ slot.ruleId = rs[w].id
            /\ slot.status = rs[w].status

TieBreakWitness == SomeSlot(TieBreakWitnessSlot)

Parses(r, f) == Has(r, f) => r[f].kind # "invalid"

WellFormedRule(r) ==
  /\ r.ruleType = "one-time" =>
        /\ Has(r, "startDateTime") /\ Has(r, "endDateTime")
        /\ Parses(r, "startDateTime") /\ Parses(r, "endDateTime")
  /\ r.ruleType = "recurring" =>
        /\ Has(r, "recurrenceDays") /\ Has(r, "startTime") /\ Has(r, "endTime")
        /\ Parses(r, "effectiveFrom") /\ Parses(r, "effectiveUntil")
  /\ Parses(r, "updatedAt")

WellFormedSession(s) == Parses(s, "start") /\ Parses(s, "end")

WellFormedInput(k) ==
  /\ \A i \in 1 .. Len(PassedRules(k)) : WellFormedRule(PassedRules(k)[i])
  /\ \A i \in 1 .. Len(PassedSessions(k)) : WellFormedSession(PassedSessions(k)[i])

\* a result in the map comes from a call on well-formed input
MalformedFailsFast ==
  \A k \in 1 .. Len(engineersAvailability) : WellFormedInput(k)

(***************************************************************************)
(* C20.  One-time applicability follows half-open intervals: a one-time    *)
(* rule applies to a slot exactly when [startDateTime, endDateTime) and    *)
(* [slotStart, slotStart + 30min) have an instant in common; a rule whose  *)
(* interval is empty applies to no slot.                                   *)
(***************************************************************************)

\* two half-open intervals have an instant in common
ShareInstant(a1, a2, b1, b2) == Max(a1, b1) < Min(a2, b2)

\* a lone one-time rule and no session: the slot carries the rule exactly
\* when the two intervals share an instant
OneTimeHalfOpenSlot(rs, ss, j, slot) ==
  (Len(rs) = 1 /\ ss = <<>> /\ rs[1].ruleType = "one-time" /\ WellFormedRule(rs[1])) =>
     LET slotStart == parseISO(zone, slot.datetime)
         shared == ShareInstant(parseISO(zone, rs[1].startDateTime),
                                parseISO(zone, rs[1].endDateTime),
                                slotStart, slotStart + SLOT_MINUTES)
     IN  /\ shared => (slot.status = rs[1].status /\ slot.ruleId = rs[1].id)
         /\ ~shared => (slot.status = "Blank" /\ slot.ruleId = Undefined)

OneTimeHalfOpen == AllSlots(OneTimeHalfOpenSlot)

(***************************************************************************)
(* C18.  Session read: getSessions returns every stored session (of the    *)
(* engineer, when one is given) whose interval [start, end) overlaps the   *)
(* requested range, also one that starts before startDate and ends inside  *)
(* the range and one that starts exactly at startDate.                     *)
(***************************************************************************)
InRange(s) ==
  ShareInstant(DateGetTime(s.start), DateGetTime(s.end),
               DateGetTime(call.startDate), DateGetTime(call.endDate))

Returned(s) == \E i \in 1 .. Len(reply) : reply[i] = s

OverlappingSessionsReturned ==
  (pc = "fetched" /\ call.op = "getSessions") =>
     \A i \in 1 .. Len(sessions) :
        (InRange(sessions[i])
           /\ (call.engineerId # Undefined => sessions[i].engineerId = call.engineerId))
          => Returned(sessions[i])

(***************************************************************************)
(* C16.  Chatbot one-time write, overnight adjustment: for every date and  *)
(* every start_time, end_time with end_time < start_time the created rule  *)
(* has startDateTime = date + start_time and endDateTime = (the calendar   *)
(* date following date) + end_time, so endDateTime is after startDateTime; *)
(* when end_time >= start_time both timestamps are on date.                *)
(***************************************************************************)
OneTimeWritten ==
  /\ pc = "written"
  /\ call.op = "chatbot"
  /\ reply.status = 201
  /\ reply.rule.ruleType = "one-time"

ChatbotOvernightEnd ==
  OneTimeWritten =>
    LET body == call.body
        rule == reply.rule
    IN  /\ rule.startDateTime = LocalIso(body.date, body.start_time)
        /\ timeToMinutes(body.end_time) < timeToMinutes(body.start_time) =>
              /\ rule.endDateTime = LocalIso(body.date + 1, body.end_time)
              /\ parseISO(zone, rule.endDateTime) > parseISO(zone, rule.startDateTime)
        /\ timeToMinutes(body.end_time) >= timeToMinutes(body.start_time) =>
              rule.endDateTime = LocalIso(body.date, body.end_time)

(***************************************************************************)
(* C17.  Calendar coalescing round trip: the one-time rules that           *)
(* handleSlotsSelected writes for a non-empty set of (date, time) picks    *)
(* and a status Available, Maybe or Unavailable, resolved on those dates   *)
(* with no other rule or session, set exactly the picked slots to the      *)
(* selected status and leave every other slot Blank, also for the 23:30    *)
(* slot.                                                                   *)
(***************************************************************************)
PicksSaved ==
  /\ pc = "resolved"
  /\ DOMAIN call # {}
  /\ call.op = "handleSlotsSelected"
  /\ call.selectedEngineer # <<>>
  /\ call.slots # <<>>
  /\ call.selectedStatus \in {"Available", "Maybe", "Unavailable"}

Picked(date, time) ==
  \E i \in 1 .. Len(call.slots) : call.slots[i] = [date |-> date, time |-> time]

PicksRoundTrip ==
  PicksSaved =>
    \A j \in 1 .. Len(engineersAvailability[1].days) :
       LET day == engineersAvailability[1].days[j]
       IN  \A i \in 1 .. Len(day.slots) :
              day.slots[i].status =
                (IF Picked(day.date, day.slots[i].time) THEN call.selectedStatus
                 ELSE "Blank")

(***************************************************************************)
(* C21.  Recurring date applicability: a recurring rule is eligible on     *)
(* calendar date d of the result exactly when the weekday of d is in       *)
(* recurrenceDays and effectiveFrom <= d <= effectiveUntil as calendar     *)
(* dates, both bounds inclusive, a missing bound meaning no bound.         *)
(***************************************************************************)
LoneRecurring(rs, ss) == Len(rs) = 1 /\ ss = <<>> /\ rs[1].ruleType = "recurring"

\* the rule set some slot of the day
EligibleOn(rule, day) == \E i \in 1 .. Len(day.slots) : day.slots[i].ruleId = rule.id

WithinBounds(rule, d) ==
  /\ Has(rule, "effectiveFrom") => rule.effectiveFrom.date <= d
  /\ Has(rule, "effectiveUntil") => d <= rule.effectiveUntil.date

RecurringDateDay(rs, ss, j, day) ==
  LoneRecurring(rs, ss) =>
    (EligibleOn(rs[1], day) <=>
       (WeekdayOf(day.date) \in rs[1].recurrenceDays /\ WithinBounds(rs[1], day.date)))

RecurringDateEligible == AllDays(RecurringDateDay)

(***************************************************************************)
(* C22.  Recurring time-of-day applicability: on an eligible date, with s, *)
(* e, t the minute of day of startTime, endTime and the slot time, the     *)
(* rule applies to the slot iff s <= t < e when e > s and iff t >= s or    *)
(* t < e when e <= s; a rule with startTime = endTime applies to every     *)
(* slot of the day.                                                        *)
(***************************************************************************)
\* the weekday matches and the date lies strictly inside the bounds present
PlainlyEligible(rule, d) ==
  /\ WeekdayOf(d) \in rule.recurrenceDays
  /\ Has(rule, "effectiveFrom") => rule.effectiveFrom.date < d
  /\ Has(rule, "effectiveUntil") => d < rule.effectiveUntil.date

InWindow(s, e, t) == IF e > s THEN s <= t /\ t < e ELSE t >= s \/ t < e

RecurringTimeDay(rs, ss, j, day) ==
  (LoneRecurring(rs, ss) /\ PlainlyEligible(rs[1], day.date)) =>
    LET s == timeToMinutes(rs[1].startTime)
        e == timeToMinutes(rs[1].endTime)
    IN  /\ \A i \in 1 .. Len(day.slots) :
              LET slot == day.slots[i]
              IN  IF InWindow(s, e, timeToMinutes(slot.time))
                  THEN slot.ruleId = rs[1].id /\ slot.status = rs[1].status
                  ELSE slot.ruleId = Undefined /\ slot.status = "Blank"
        /\ s = e => \A i \in 1 .. Len(day.slots) : day.slots[i].ruleId = rs[1].id

RecurringTimeWitnessDay(rs, ss, j, day) ==
  /\ LoneRecurring(rs, ss)
  /\ PlainlyEligible(rs[1], day.date)
  /\ Len(day.slots) = 48
  /\ \/ /\ rs[1].startTime = rs[1].endTime
        /\ \A i \in 1 .. 48 : day.slots[i].status = "Available"
     \/ /\ timeToMinutes(rs[1].endTime) < timeToMinutes(rs[1].startTime)
        /\ \E i \in 1 .. 48 : day.slots[i].time = <<3, 30>> /\ day.slots[i].status = "Available"
        /\ \E i \in 1 .. 48 : day.slots[i].time = <<4, 0>> /\ day.slots[i].status = "Blank"
        /\ \E i \in 1 .. 48 : day.slots[i].time = <<22, 0>> /\ day.slots[i].status = "Available"

Overlapping(ss, slot) == {n \in 1 .. Len(ss) : Overlaps(ss[n], slot)}

FirstMatchSlot(rs, ss, j, slot) ==
  LET over == Overlapping(ss, slot)
  IN  over # {} =>
        /\ slot.status = "Booked"
        /\ \E n \in over : (\A m \in over : n <= m) /\ slot.sessionId = ss[n].id

SessionFirstMatch == AllSlots(FirstMatchSlot)

\* two different sessions overlap a slot that carries the id of the first
FirstMatchWitnessSlot(rs, ss, j, slot) ==
  \E n \in Overlapping(ss, slot), m \in Overlapping(ss, slot) :
     /\ n < m
     /\ ss[n].id # ss[m].id
     /\ ss[n].start # ss[m].start
     /\ slot.status = "Booked"
     /\ slot.sessionId = ss[n].id

SessionFirstMatchWitness == SomeSlot(FirstMatchWitnessSlot)

(***************************************************************************)
(* C28.  Slot field invariants: status = Booked iff sessionId is set;      *)
(* status = Blank iff neither ruleId nor sessionId is set; a ruleId that   *)
(* is set is the id of an input rule that applies to the slot, and gives   *)
(* the status of a slot that is not Booked; the session overlay leaves the *)
(* ruleId written by the rules untouched.                                  *)
(***************************************************************************)
SlotFields(rs, ss, j, slot) ==
  LET app == Applicable(rs, j, slot)
  IN  /\ slot.status = "Booked" <=> slot.sessionId # Undefined
      /\ slot.status = "Blank" <=> (slot.ruleId = Undefined /\ slot.sessionId = Undefined)
      /\ slot.ruleId # Undefined =>
            \E i \in app : /\ rs[i].id = slot.ruleId
                           /\ slot.status # "Booked" => slot.status = rs[i].status
      /\ slot.ruleId = Undefined <=> app = {}

SlotFieldInvariants == AllSlots(SlotFields)

\* a Booked slot that still carries the id of the rule that applies to it
SlotFieldsWitnessSlot(rs, ss, j, slot) ==
  /\ slot.status = "Booked"
  /\ slot.sessionId # Undefined
  /\ Applicable(rs, j, slot) # {}
  /\ \E i \in Applicable(rs, j, slot) : rs[i].id = slot.ruleId

SlotFieldsWitness == SomeSlot(SlotFieldsWitnessSlot)

(***************************************************************************)
(* C24.  Roll-up priority as the comment in the code states it: a          *)
(* non-empty window is classified by the highest-priority status among its *)
(* slots under the order Booked > Unavailable > Maybe > Blank > Available  *)
(* (Blank reported as not_set), so an engineer is available only when no   *)
(* slot of the window has a status of higher priority than Available.      *)
(* Amended: the order that holds is Booked > Unavailable > Maybe >         *)
(* Available > Blank.                                                      *)
(***************************************************************************)
BucketOf(status) ==
  CASE status = "Booked" -> "booked"
    [] status = "Unavailable" -> "unavailable"
    [] status = "Maybe" -> "maybe"
    [] status = "Available" -> "available"
    [] OTHER -> "not_set"

\* the order of the comment, highest first
CommentOrder == <<"Booked", "Unavailable", "Maybe", "Blank", "Available">>
\* the order the branches follow, highest first
BranchOrder == <<"Booked", "Unavailable", "Maybe", "Available", "Blank">>

\* the status of S that comes first in the order
Highest(order, S) ==
  order[CHOOSE i \in 1 .. Len(order) :
          order[i] \in S /\ \A n \in 1 .. Len(order) : order[n] \in S => i <= n]

CommentOrderWindow(S, name) ==
  S # {} => /\ InList(BucketOf(Highest(CommentOrder, S)), name)
            /\ InList("available", name) => S = {"Available"}

BranchOrderWindow(S, name) == S # {} => InList(BucketOf(Highest(BranchOrder, S)), name)

Accepted == pc = "written" /\ call.op = "chatbot" /\ reply.status = 201

\* the engineers whose name, whatever the case, or whose id is the text
Named(text) ==
  {engineers[i] : i \in {n \in 1 .. Len(engineers) :
     toLowerCase(engineers[n].name) = toLowerCase(text) \/ engineers[n].id = text}}

\* field f of the rule is field g of the body, present in both or in neither
Carries(rule, f, body, g) ==
  /\ Has(rule, f) <=> Has(body, g)
  /\ Has(body, g) => rule[f] = body[g]

ChatbotRuleType ==
  Accepted =>
    LET body == call.body
        rule == reply.rule
    IN  /\ rules = <<rule>>
        /\ rule.source = "chatbot"
        /\ \E e \in Named(body.engineer) : rule.engineerId = e.id
        /\ rule.status = body.status
        /\ rule.ruleType = "recurring" <=> (Has(body, "days") /\ body.days # {})
        /\ rule.ruleType # "recurring" => rule.ruleType = "one-time"
        /\ rule.ruleType = "recurring" =>
              /\ rule.startTime = body.start_time
              /\ rule.endTime = body.end_time
              /\ rule.recurrenceDays = body.days
              /\ Carries(rule, "effectiveFrom", body, "effective_from")
              /\ Carries(rule, "effectiveUntil", body, "effective_until")
              /\ ~Has(rule, "startDateTime") /\ ~Has(rule, "endDateTime")
        /\ rule.ruleType = "one-time" =>
              /\ Has(rule, "startDateTime") /\ Has(rule, "endDateTime")
              /\ ~Has(rule, "recurrenceDays") /\ ~Has(rule, "startTime")

\* a recurring write from a body that also has a date, and the bounds
ChatbotRecurringWitness ==
  /\ Accepted
  /\ reply.rule.ruleType = "recurring"
  /\ Has(call.body, "date")
  /\ Has(reply.rule, "effectiveFrom")
  /\ ~Has(reply.rule, "effectiveUntil")
  /\ Len(rules) = 1

\* a one-time write from a body with an empty weekday list
ChatbotEmptyDaysWitness ==
  /\ Accepted
  /\ Has(call.body, "days")
  /\ call.body.days = {}
  /\ reply.rule.ruleType = "one-time"

(***************************************************************************)
(* C26.  Chatbot rejections write nothing: a request with a method other   *)
(* than POST (405), without engineer or status (400), naming no engineer   *)
(* (404), recurring without start_time or end_time (400) or one-time       *)
(* without date, start_time or end_time (400) creates no rule and leaves   *)
(* the store as it was; a rule is created only with a 201.                 *)
(***************************************************************************)
\* the status the claim gives a request, 201 when it names no rejection
ExpectedStatus(method, body) ==
  IF method # "POST" THEN 405
  ELSE IF ~Has(body, "engineer") \/ ~Has(body, "status") THEN 400
  ELSE IF Named(body.engineer) = {} THEN 404
  ELSE IF Has(body, "days") /\ body.days # {}
  THEN (IF Has(body, "start_time") /\ Has(body, "end_time") THEN 201 ELSE 400)
  ELSE (IF Has(body, "date") /\ Has(body, "start_time") /\ Has(body, "end_time")
        THEN 201 ELSE 400)

ChatbotRejectionsWriteNothing ==
  (pc = "written" /\ call.op = "chatbot") =>
     /\ reply.status = ExpectedStatus(call.method, call.body)
     /\ reply.status # 201 => (rules = <<>> /\ ~Has(reply, "rule") /\ ~reply.success)
     /\ reply.status = 201 <=> Len(rules) = 1

\* a request naming an unknown engineer, complete otherwise, was rejected
ChatbotRejectionWitness ==
  /\ pc = "written"
  /\ call.op = "chatbot"
  /\ call.method = "POST"
  /\ Has(call.body, "engineer") /\ call.body.engineer = "Nobody"
  /\ Has(call.body, "status") /\ Has(call.body, "date")
  /\ Has(call.body, "start_time") /\ Has(call.body, "end_time")
  /\ reply.status = 404
  /\ rules = <<>>

(***************************************************************************)
(* C27.  Calendar coalescing is minimal: for every set of distinct picks   *)
(* handleSlotsSelected writes, per date, exactly one one-time rule per     *)
(* maximal run of consecutive 30-minute slots (start = first slot of the   *)
(* run, end = last slot of the run + 30 minutes); the rules of one date    *)
(* are pairwise neither overlapping nor adjacent.                          *)
(***************************************************************************)
PicksPosted ==
  /\ DOMAIN call # {}
  /\ call.op = "handleSlotsSelected"
  /\ call.selectedEngineer # <<>>
  /\ call.slots # <<>>
  /\ call.selectedStatus \in {"Available", "Maybe", "Unavailable"}

\* minutes of day of the picks on a date
PickedOn(date) ==
  {timeToMinutes(call.slots[i].time) : i \in {n \in 1 .. Len(call.slots) :
                                                call.slots[n].date = date}}

\* first slots of the maximal runs of a date
RunStarts(date) == {t \in PickedOn(date) : (t - SLOT_MINUTES) \notin PickedOn(date)}

\* last slot of the maximal run that starts at t
RunLast(date, t) ==
  CHOOSE u \in PickedOn(date) :
    /\ u >= t
    /\ (u + SLOT_MINUTES) \notin PickedOn(date)
    /\ \A v \in PickedOn(date) : (t <= v /\ v <= u) =>
          (v = t \/ (v - SLOT_MINUTES) \in PickedOn(date))
    /\ \A w \in PickedOn(date) :
          (w >= t /\ (w + SLOT_MINUTES) \notin PickedOn(date)) => u <= w

PostedOn(date) == {n \in 1 .. Len(reply) : reply[n].startDateTime.date = date}

CoalescingMinimal ==
  PicksPosted =>
    \A date \in {call.slots[i].date : i \in 1 .. Len(call.slots)} :
       /\ Cardinality(PostedOn(date)) = Cardinality(RunStarts(date))
       /\ \A t \in RunStarts(date) :
             \E n \in PostedOn(date) :
                /\ reply[n].ruleType = "one-time"
                /\ parseISO(zone, reply[n].startDateTime) = DayStart(zone, date) + t
                /\ parseISO(zone, reply[n].endDateTime)
                     = DayStart(zone, date) + RunLast(date, t) + SLOT_MINUTES
       /\ \A n \in PostedOn(date), m \in PostedOn(date) :
             n # m => \/ parseISO(zone, reply[n].endDateTime)
                           < parseISO(zone, reply[m].startDateTime)
                      \/ parseISO(zone, reply[m].endDateTime)
                           < parseISO(zone, reply[n].startDateTime)


(***************************************************************************)
(* C29.  Drag selection never contains a booked slot: for a fixed          *)
(* availability prop and any sequence of mouse-down, mouse-enter and       *)
(* mouse-up events, every key in selectedSlots refers to a slot whose      *)
(* status is not Booked, so onSlotsSelected is never called with a Booked  *)
(* slot; a drag never starts on a Booked slot, and after every mouse-up    *)
(* isDragging = false, dragStart = null and the selection is empty.        *)
(***************************************************************************)
NotBookedCell(key) ==
  /\ key[1] \in 1 .. Len(Shown)
  /\ key[2] \in 1 .. Len(Shown[key[1]].slots)
  /\ Shown[key[1]].slots[key[2]].status # "Booked"

\* the slot of the prop with this date and time is not Booked
NotBookedSlot(picked) ==
  \E d \in 1 .. Len(Shown) : \E i \in 1 .. Len(Shown[d].slots) :
    /\ Shown[d].date = picked.date
    /\ Shown[d].slots[i].time = picked.time
    /\ Shown[d].slots[i].status # "Booked"

DragAtRest ==
  drag = [isDragging |-> FALSE, dragStart |-> <<>>, selectedSlots |-> <<>>]

DragNeverBooked ==
  Rendered =>
    /\ \A k \in 1 .. Len(drag.selectedSlots) : NotBookedCell(drag.selectedSlots[k])
    /\ Has(call, "slots") =>
         /\ call.slots # <<>>
         /\ \A k \in 1 .. Len(call.slots) : NotBookedSlot(call.slots[k])
    /\ drag.isDragging => NotBookedCell(drag.dragStart)
    /\ ~drag.isDragging => DragAtRest
    /\ pc = "mouseup" => DragAtRest

\* a drag whose rectangle holds a Booked slot, left out of the selection
DragAroundBooked ==
  /\ Rendered
  /\ pc = "mouseenter"
  /\ drag.isDragging
  /\ Len(drag.selectedSlots) >= 2
  /\ \E d \in 1 .. Len(Shown) : \E i \in 1 .. Len(Shown[d].slots) :
        /\ Shown[d].slots[i].status = "Booked"
        /\ Min(drag.dragStart[1], drag.selectedSlots[Len(drag.selectedSlots)][1]) <= d
        /\ d <= Max(drag.dragStart[1], drag.selectedSlots[Len(drag.selectedSlots)][1])
        /\ \E k \in 1 .. Len(drag.selectedSlots) : drag.selectedSlots[k][2] = i
        /\ \A k \in 1 .. Len(drag.selectedSlots) : drag.selectedSlots[k] # <<d, i>>

\* onSlotsSelected called with several slots of a prop that has a Booked one
DragEmitted ==
  /\ Rendered
  /\ pc = "mouseup"
  /\ Has(call, "slots")
  /\ Len(call.slots) >= 2
  /\ \E d \in 1 .. Len(Shown) : \E i \in 1 .. Len(Shown[d].slots) :
        Shown[d].slots[i].status = "Booked"


(***************************************************************************)
(* C30.  Store history: after any sequence of rule creations, each stamped *)
(* later than all earlier ones, and deletions by id, resolving against the *)
(* current rule snapshot gives every slot no session overlaps the status   *)
(* of the most recently updated rule still present that applies to it, or  *)
(* Blank when none is left; a deleted rule is gone from the table and from *)
(* every later result.                                                     *)
(***************************************************************************)
\* the table holds its records in the order of their creation, each named
\* and stamped by its creation number, and a record deleted by the last
\* request is gone
TableInOrder ==
  /\ \A i \in 1 .. Len(rules) :
        /\ Stamp(rules[i]) \in 1 .. clock
        /\ rules[i].id = "rule" \o ToString(Stamp(rules[i]))
  /\ \A i \in 1 .. Len(rules), j \in 1 .. Len(rules) :
        i < j => Stamp(rules[i]) < Stamp(rules[j])
  /\ (Has(call, "method") /\ call.method = "DELETE") =>
        /\ reply.status = 200 =>
              /\ Has(call.query, "ruleId")
              /\ \A i \in 1 .. Len(rules) : rules[i].id # call.query.ruleId
        /\ reply.status \in {200, 400, 500}
        /\ reply.status = 400 <=> ~Has(call.query, "ruleId")

\* the slot of the k-th view has the status of the latest rule of the
\* snapshot that applies to it
LatestPresentSlot(k, j, slot) ==
  LET rs == passed[k].rules
      app == Applicable(rs, j, slot)
  IN  NoSessionOverlaps(passed[k].sessions, slot) =>
        IF app = {}
        THEN slot.status = "Blank" /\ slot.ruleId = Undefined
        ELSE \E w \in app :
               /\ \A i \in app \ {w} : Stamp(rs[i]) < Stamp(rs[w])
               /\ slot.status = rs[w].status
               /\ slot.ruleId = rs[w].id

StoreHistory ==
  /\ TableInOrder
  /\ \A k \in 1 .. Len(engineersAvailability) :
       LET days == engineersAvailability[k].days
       IN  \A j \in 1 .. Len(days) :
             \A i \in 1 .. Len(days[j].slots) : LatestPresentSlot(k, j, days[j].slots[i])

\* two views with a deletion in between: the rule that won a slot in the
\* first view is deleted, and the second view gives the slot to an older
\* rule of another status that the first view had passed over
WinnerDeleted ==
  /\ Len(engineersAvailability) = 2
  /\ Has(call, "op") /\ call.op = "rules"
  /\ \E j \in 1 .. Len(engineersAvailability[1].days) :
       \E i \in 1 .. Len(engineersAvailability[1].days[j].slots) :
         LET before == engineersAvailability[1].days[j].slots[i]
             after == engineersAvailability[2].days[j].slots[i]
             rs1 == passed[1].rules
             rs2 == passed[2].rules
         IN  /\ NoSessionOverlaps(passed[1].sessions, before)
             /\ before.ruleId # Undefined
             /\ after.ruleId # Undefined
             /\ \A n \in 1 .. Len(rs2) : rs2[n].id # before.ruleId
             /\ \E n \in 1 .. Len(rs1) : rs1[n].id = after.ruleId
             /\ before.status # after.status

====
